---- MODULE Spec2Model ----
(***************************************************************************)
(* Workflow engine of the robot orchestration backend                      *)
(* (src/app/workflow_engine/service.py) with the task manager's status     *)
(* operations (src/app/task_manager/router.py).                            *)
(*                                                                         *)
(* The handlers are coroutines on one event loop: the code between two     *)
(* awaited HTTP calls runs without interleaving (the SQLModel session is   *)
(* synchronous), so each action below is one such segment.  Every request  *)
(* has its own ORM session: a run object loaded in a session keeps the     *)
(* attribute values it was loaded with until that session commits (commit  *)
(* expires every object of the session), and a flush UPDATEs only the      *)
(* attributes whose new value differs from the loaded one.                 *)
(***************************************************************************)
EXTENDS Integers, Sequences, FiniteSets, TLC

\* ---------------------------------------------------------------- bounds
\* The exploration covers two regimes: overlapping handlers on a few runs, and
\* one handler at a time on one run followed through all of its steps.
MaxTasks == 1
MaxRuns == 2
MaxVendorTasks == 1
MaxSeqRuns == 1
MaxSeqVendorTasks == 4
\* the tick passes over one followed run
MaxTicks == 5

Procs == {1, 2}
Robots == {"R1", "R2"}
Regimes ==
    {[procs |-> Procs, runs |-> MaxRuns, vendor |-> MaxVendorTasks, history |-> FALSE],
     [procs |-> {1}, runs |-> MaxSeqRuns, vendor |-> MaxSeqVendorTasks, history |-> FALSE]}
\* with the offline check every run of a tick pass waits once more
OfflineRegimes ==
    {[procs |-> Procs, runs |-> MaxSeqRuns, vendor |-> MaxVendorTasks, history |-> FALSE],
     [procs |-> {1}, runs |-> MaxSeqRuns, vendor |-> MaxSeqVendorTasks, history |-> FALSE]}
\* one handler at a time on the one run whose history is kept
ScenarioRegimes ==
    {[procs |-> {1}, runs |-> 1, vendor |-> MaxSeqVendorTasks, history |-> TRUE]}

\* ---------------------------------------------------------------- domain
TaskTypes == {"NAVIGATE", "ORDERING", "DELIVERY", "CLEANUP", "BILLING", "CHARGING"}
\* the task types and release times drawn for create_task
TaskTypeInputs == {"NAVIGATE", "ORDERING", "DELIVERY", "CLEANUP"}
FutureInputs == {FALSE}
TerminalTaskStatus == {"DONE", "CANCELED"}
TerminalRunStatus == {"DONE", "FAILED", "CANCELED"}
StatusInputs == {"READY", "CANCELED"}
NoVendorTask == 0
NoRobot == "none"
NoError == "none"
NoDecision == "none"
DefaultPostponeMinutes == 10
NoMinutes == -1
\* the confirm requests drawn: a decision with the minutes of its payload
ConfirmInputs ==
    {<<"YES", NoMinutes>>, <<"NO", NoMinutes>>, <<"COMPLETED", NoMinutes>>,
     <<"POSTPONE", NoMinutes>>, <<"POSTPONE", 5>>}

VARIABLES tasks, runs, steps, vendor, procs, out, lastWriter, safe_mode, auto_reassign, regime,
          hist, client, poller, resolver

vars == <<tasks, runs, steps, vendor, procs, out, lastWriter, safe_mode, auto_reassign, regime,
          hist, client, poller, resolver>>
cfg == <<safe_mode, auto_reassign, regime, client, poller, resolver>>
\* the workflow engine's part of the state
engine == <<tasks, runs, steps, vendor, procs, out, lastWriter, safe_mode, auto_reassign, regime,
            hist>>
db == <<tasks, runs, steps, vendor>>

\* ---------------------------------------------------------------- planner
StepManual(code) ==
    [step_index |-> 0, step_type |-> "MANUAL_CONFIRM", step_code |-> code, target |-> "none",
     decision |-> NoDecision, completed |-> FALSE, decision_minutes |-> NoMinutes]

StepNav(kind) ==
    [step_index |-> 0, step_type |-> "NAVIGATE", step_code |-> "NAVIGATE", target |-> kind,
     decision |-> NoDecision, completed |-> FALSE, decision_minutes |-> NoMinutes]

PlanSteps(task_type) ==
    CASE task_type = "ORDERING" -> <<StepNav("TABLE"), StepManual("ORDER_DECISION")>>
      [] task_type = "DELIVERY" -> <<StepNav("KITCHEN"), StepManual("DELIVERY_LOADED"),
                                     StepNav("TABLE"), StepManual("DELIVERY_DONE")>>
      [] task_type = "CLEANUP" -> <<StepNav("TABLE"), StepManual("CLEANUP_HAS_DISHES"),
                                    StepNav("WASHING"), StepManual("CLEANUP_MORE_DISHES")>>
      [] task_type = "BILLING" -> <<StepNav("OPERATOR"), StepManual("BILLING_READY"),
                                    StepNav("TABLE"), StepManual("BILLING_COLLECTED"),
                                    StepNav("OPERATOR"), StepManual("BILLING_DONE")>>
      [] task_type = "NAVIGATE" -> <<StepNav("TARGET")>>
      [] task_type = "CHARGING" -> <<StepNav("CHARGING")>>

NumberStepsFromOne(planned) == [i \in DOMAIN planned |-> [planned[i] EXCEPT !.step_index = i]]

\* start_run numbers the planned steps as it persists them
NumberSteps(planned) == [i \in DOMAIN planned |-> [planned[i] EXCEPT !.step_index = i - 1]]

\* position in get_steps(run) of the first step with step_index = idx (0: none)
StepAt(rsteps, idx) ==
    IF \E k \in DOMAIN rsteps : rsteps[k].step_index = idx
    THEN CHOOSE k \in DOMAIN rsteps :
            /\ rsteps[k].step_index = idx
            /\ \A j \in DOMAIN rsteps : rsteps[j].step_index = idx => k <= j
    ELSE 0

\* ---------------------------------------------------------------- ORM session
NullRow ==
    [task_id |-> 0, robot_id |-> NoRobot, status |-> "none", current_step_index |-> 0,
     total_steps |-> 0, current_vendor_task_id |-> NoVendorTask, last_error |-> NoError]

Expired == [loaded |-> FALSE, row |-> NullRow]

Loaded(row) == [loaded |-> TRUE, row |-> row]

\* attribute access on an expired object refreshes it from the database
Load(obj, r) == IF obj.loaded THEN obj ELSE Loaded(runs[r])

\* the UPDATE of a flush: only attributes set to a value other than the loaded one
Flush(row, obj, upd) ==
    [f \in DOMAIN row |->
        IF f \in DOMAIN upd /\ (~obj.loaded \/ obj.row[f] # upd[f]) THEN upd[f] ELSE row[f]]

\* ---------------------------------------------------------------- processes
IdleProc ==
    [pc |-> "idle", op |-> "none", task_id |-> 0, robot_id |-> NoRobot, run_id |-> 0,
     queue |-> <<>>, snap |-> <<>>, result |-> "none",
     progressed |-> 0, finished |-> 0, failed |-> 0, applied |-> FALSE]

\* the handler is about to return res
Finished(pr, res) == [pr EXCEPT !.pc = "done", !.result = res]

\* the response (or error) a handler returns to its caller
Response(pr) ==
    [op |-> pr.op, result |-> pr.result, run_id |-> pr.run_id,
     progressed |-> pr.progressed, finished |-> pr.finished, failed |-> pr.failed]

NoResponse == Response(IdleProc)

\* slot p continues as pr, or returns its response and becomes idle
Settle(p, pr) ==
    IF pr.pc = "done"
    THEN procs' = [procs EXCEPT ![p] = IdleProc] /\ out' = Response(pr)
    ELSE procs' = [procs EXCEPT ![p] = pr] /\ out' = NoResponse

Free(p) == procs[p].pc = "idle"

\* a request is served in the lowest free slot
Accepts(p) == p \in regime.procs /\ Free(p) /\ \A q \in Procs : q < p => ~Free(q)

\* ghost: the slot of the confirm call in flight whose decision was the last write
\* to each run row (0: none)
Forget(lw, p) == [r \in DOMAIN lw |-> IF lw[r] = p THEN 0 ELSE lw[r]]

RunIds == 1..Len(runs)

\* ---------------------------------------------------------------- history
\* ghost: what happened to the followed run, kept when regime.history is set:
\* whether its start_run returned without error, the tick passes begun since it
\* exists, the values current_step_index took, the decisions confirm applied, the
\* task_create and task_state calls issued, and the task_state calls answered
\* with a completion (actType 1001) and with another state
NoHistory ==
    [started |-> FALSE, ticks |-> 0, trail |-> <<>>, decisions |-> <<>>,
     creates |-> 0, polls |-> 0, completions |-> 0, pending |-> 0]

CreatePcs == {"s_create", "c_create", "t_create"}

\* the handlers that reach a pc of the set pcs in this step
Entering(pcs) == {p \in Procs : procs'[p].pc \in pcs /\ procs[p].pc \notin pcs}

\* the run rows whose current_step_index is new or changed in this step
Moved ==
    {r \in 1..Len(runs') :
        r > Len(runs) \/ runs'[r].current_step_index # runs[r].current_step_index}

\* the tick passes whose task_state call returned a state in this step
PollAnswered == {p \in Procs : procs[p].pc = "t_poll" /\ procs'[p].pc # "t_poll"}

\* failed_runs of the tick pass in slot p after the step
FailedAfter(p) == IF procs'[p].op = "tick" THEN procs'[p].failed ELSE out'.failed

Record(passes, decided) ==
    hist' = IF ~regime.history THEN hist
            ELSE [started |-> hist.started \/ (out'.op = "start_run" /\ out'.result = "ok"),
                  ticks |-> hist.ticks + (IF runs # <<>> THEN passes ELSE 0),
                  trail |-> IF Moved = {} THEN hist.trail
                            ELSE Append(hist.trail,
                                        runs'[CHOOSE r \in Moved : TRUE].current_step_index),
                  decisions |-> hist.decisions \o decided,
                  creates |-> hist.creates + Cardinality(Entering(CreatePcs)),
                  polls |-> hist.polls + Cardinality(Entering({"t_poll"})),
                  completions |-> hist.completions +
                      Cardinality({p \in PollAnswered : Moved # {}}),
                  pending |-> hist.pending +
                      Cardinality({p \in PollAnswered :
                                      Moved = {} /\ FailedAfter(p) = procs[p].failed})]

Database ==
    /\ tasks = <<>>
    /\ runs = <<>>
    /\ steps = <<>>
    /\ vendor = <<>>
    /\ procs = [p \in Procs |-> IdleProc]
    /\ out = NoResponse
    /\ lastWriter = <<>>
    /\ hist = NoHistory

\* no vendor call is followed
IdleClient ==
    [pc |-> "idle", call |-> "none", cached |-> TRUE, responses |-> <<>>,
     sent |-> 0, cleared |-> 0, fetched |-> 0, result |-> "none"]

NoState == <<>>
NoHash == <<>>
NoEvent == [type |-> "none", robot_id |-> NoRobot, state |-> NoState]
NoFetch == [robot_id |-> NoRobot, ok |-> FALSE, state |-> NoState]

\* RobotStatePoller.__init__: no loop task, the stop event clear, no hash kept.
\* loops: the _loop tasks that have not finished, the last one being self._task
\* while task is "alive"; stopping: a stop call waits for self._task.  event and
\* fetched are the envelope published and the state fetched in the last step;
\* ghost: published is the state of each robot's last robot.state_updated event,
\* errors whether a fetch of the robot failed since then
IdlePoller ==
    [task |-> "none", loops |-> <<>>, stop |-> FALSE, stopping |-> FALSE,
     last_hash |-> [rid \in Robots |-> NoHash], cache |-> [rid \in Robots |-> NoState],
     event |-> NoEvent, fetched |-> NoFetch,
     published |-> [rid \in Robots |-> NoState], errors |-> [rid \in Robots |-> FALSE]]

NoArea == "none"

\* no POI is being resolved and nothing is planned
IdleResolver ==
    [pc |-> "idle", store |-> {}, area |-> NoArea, pois |-> <<>>, kind |-> <<>>, ref |-> <<>>,
     result |-> [id |-> <<>>, name |-> <<>>, areaId |-> NoArea],
     task_type |-> "none", planned |-> [ok |-> FALSE, steps |-> <<>>]]

\* the poller is not started and no POI is being resolved
Monitor == poller = IdlePoller /\ resolver = IdleResolver

\* AUTO_REASSIGN_ON_OFFLINE at its default
Init ==
    /\ Database
    /\ Monitor
    /\ client = IdleClient
    /\ safe_mode \in BOOLEAN
    /\ auto_reassign = FALSE
    /\ regime \in Regimes

\* AUTO_REASSIGN_ON_OFFLINE=1
InitOffline ==
    /\ Database
    /\ Monitor
    /\ client = IdleClient
    /\ safe_mode = FALSE
    /\ auto_reassign = TRUE
    /\ regime \in OfflineRegimes

\* ---------------------------------------------------------------- task manager
CreateStatus(future) == IF future THEN "PENDING" ELSE "READY"

\* POST /tasks with a task type of the set types
CreateTask(types) ==
    /\ Len(tasks) < MaxTasks
    /\ \E tt \in types, future \in FutureInputs :
          tasks' = Append(tasks, [task_type |-> tt, status |-> CreateStatus(future),
                                  assigned_robot_id |-> NoRobot, release_min |-> 0])
    /\ out' = NoResponse
    /\ UNCHANGED <<runs, steps, vendor, procs, lastWriter, cfg>>
    /\ Record(0, <<>>)

create_task == CreateTask(TaskTypeInputs)

SetStatusTo(task, status) == [task EXCEPT !.status = status]

set_status ==
    /\ \E t \in 1..Len(tasks), status \in StatusInputs :
          tasks' = [tasks EXCEPT ![t] = SetStatusTo(@, status)]
    /\ out' = NoResponse
    /\ UNCHANGED <<runs, steps, vendor, procs, lastWriter, cfg>>
    /\ Record(0, <<>>)

\* ---------------------------------------------------------------- start_run
RobotHasRunning(robot) ==
    \E r \in RunIds : runs[r].robot_id = robot /\ runs[r].status = "RUNNING"

StartRunCheckAnyStatus(task_id, robot) ==
    IF task_id \notin 1..Len(tasks) THEN "TaskNotFound"
    ELSE IF RobotHasRunning(robot) THEN "RobotBusy"
    ELSE "ok"

StartRunCheck(task_id, robot) ==
    IF task_id \notin 1..Len(tasks) THEN "TaskNotFound"
    ELSE IF tasks[task_id].status \in TerminalTaskStatus THEN "TaskTerminal"
    ELSE IF RobotHasRunning(robot) THEN "RobotBusy"
    ELSE "ok"

\* robots are interchangeable: R2 is drawn once a run of R1 exists or is being started
RobotInputs ==
    IF \E r \in RunIds : runs[r].robot_id = "R1" THEN Robots
    ELSE IF \E q \in Procs : procs[q].pc = "s_plan" /\ procs[q].robot_id = "R1" THEN Robots
    ELSE {"R1"}

StartsInFlight == Cardinality({q \in Procs : procs[q].pc = "s_plan"})

StartRunBegin(p) ==
    /\ Accepts(p)
    /\ Len(runs) + StartsInFlight < regime.runs
    /\ \E task_id \in 1..(MaxTasks + 1), robot \in RobotInputs :
          LET chk == StartRunCheck(task_id, robot)
              pr == [IdleProc EXCEPT !.op = "start_run", !.task_id = task_id,
                                     !.robot_id = robot]
          IN Settle(p,
                          IF chk = "ok" THEN [pr EXCEPT !.pc = "s_plan"]
                          ELSE Finished(pr, chk))
    /\ UNCHANGED <<db, lastWriter, cfg>>
    /\ Record(0, <<>>)

NewRun(task_id, robot, n) ==
    [task_id |-> task_id, robot_id |-> robot, status |-> "RUNNING",
     current_step_index |-> 0, total_steps |-> n,
     current_vendor_task_id |-> NoVendorTask, last_error |-> NoError]

EnsureStepStartedUnguarded(row, rsteps) ==
    IF row.current_step_index >= row.total_steps THEN "return"
    ELSE IF StepAt(rsteps, row.current_step_index) = 0 THEN "missing"
    ELSE IF rsteps[StepAt(rsteps, row.current_step_index)].step_type = "MANUAL_CONFIRM"
         THEN "return"
    ELSE "create"

\* what _ensure_step_started does with a freshly loaded run before any vendor call:
\* "return" (nothing to start), "missing", "blocked" (SAFE_MODE) or "create"
EnsureStepStarted(row, rsteps) ==
    IF row.current_step_index >= row.total_steps THEN "return"
    ELSE IF StepAt(rsteps, row.current_step_index) = 0 THEN "missing"
    ELSE IF rsteps[StepAt(rsteps, row.current_step_index)].step_type = "MANUAL_CONFIRM"
         THEN "return"
    ELSE IF safe_mode THEN "blocked"
    ELSE "create"

EnsureError(e) == IF e = "blocked" THEN "SafeModeBlocked" ELSE "StepNotFound"

\* plan_steps returned (or raised); on success the run and its steps are
\* committed and _ensure_step_started runs up to the vendor call
StartRunPlanned(p) ==
    /\ procs[p].pc = "s_plan"
    /\ \E resolved \in BOOLEAN :
          IF ~resolved
          THEN /\ Settle(p, Finished(procs[p], "InvalidTask"))
               /\ UNCHANGED <<db, lastWriter>>
          ELSE LET planned == NumberSteps(PlanSteps(tasks[procs[p].task_id].task_type))
                   run == NewRun(procs[p].task_id, procs[p].robot_id, Len(planned))
                   id == Len(runs) + 1
                   pr == [procs[p] EXCEPT !.run_id = id]
               IN /\ runs' = Append(runs, run)
                  /\ steps' = Append(steps, planned)
                  /\ lastWriter' = Append(lastWriter, 0)
                  /\ UNCHANGED <<tasks, vendor>>
                  /\ Settle(p,
                        LET e == EnsureStepStarted(run, planned) IN
                        IF e = "return" THEN Finished(pr, "ok")
                        ELSE IF e = "create" THEN [pr EXCEPT !.pc = "s_create"]
                        ELSE Finished(pr, EnsureError(e)))
    /\ UNCHANGED cfg
    /\ Record(0, <<>>)

VendorOutcomes == {"ok", "raise", "no_task_id"}

CreateOutcomes == IF Len(vendor) < regime.vendor THEN VendorOutcomes ELSE {"raise", "no_task_id"}

SetVendorTask(row, id) == [row EXCEPT !.current_vendor_task_id = id]

\* task_create_v3 returned to _ensure_step_started (called from start_run or confirm)
CreateReturns(p) ==
    /\ procs[p].pc \in {"s_create", "c_create"}
    /\ \E outcome \in CreateOutcomes :
          IF outcome = "ok"
          THEN /\ vendor' = Append(vendor, procs[p].run_id)
               /\ runs' = [runs EXCEPT ![procs[p].run_id] = SetVendorTask(@, Len(vendor) + 1)]
               /\ lastWriter' = Forget(lastWriter, p)
               /\ Settle(p, Finished(procs[p], "ok"))
               /\ UNCHANGED <<tasks, steps>>
          ELSE /\ Settle(p, Finished(procs[p], "VendorError"))
               /\ lastWriter' = Forget(lastWriter, p)
               /\ UNCHANGED db
    /\ UNCHANGED cfg
    /\ Record(0, <<>>)

\* ---------------------------------------------------------------- confirm
ConfirmCheckAnyStatus(run_id) ==
    IF run_id \notin RunIds THEN "RunNotFound"
    ELSE IF StepAt(steps[run_id], runs[run_id].current_step_index) = 0 THEN "StepNotFound"
    ELSE IF steps[run_id][StepAt(steps[run_id], runs[run_id].current_step_index)].step_type
                # "MANUAL_CONFIRM"
         THEN "StepNotManual"
    ELSE "ok"

ConfirmCheckAnyStepType(run_id) ==
    IF run_id \notin RunIds THEN "RunNotFound"
    ELSE IF runs[run_id].status # "RUNNING" THEN "RunNotRunning"
    ELSE IF StepAt(steps[run_id], runs[run_id].current_step_index) = 0 THEN "StepNotFound"
    ELSE "ok"

ConfirmCheck(run_id) ==
    IF run_id \notin RunIds THEN "RunNotFound"
    ELSE IF runs[run_id].status # "RUNNING" THEN "RunNotRunning"
    ELSE IF StepAt(steps[run_id], runs[run_id].current_step_index) = 0 THEN "StepNotFound"
    ELSE IF steps[run_id][StepAt(steps[run_id], runs[run_id].current_step_index)].step_type
                # "MANUAL_CONFIRM"
         THEN "StepNotManual"
    ELSE "ok"

RecordDecision(step, decision, minutes) ==
    [step EXCEPT !.completed = TRUE, !.decision = decision, !.decision_minutes = minutes]

DeliveryOrBillingCodes ==
    {"DELIVERY_LOADED", "DELIVERY_DONE", "BILLING_READY", "BILLING_COLLECTED", "BILLING_DONE"}

MinutesIgnoringPayload(m) == DefaultPostponeMinutes

Minutes(m) == IF m = NoMinutes THEN DefaultPostponeMinutes ELSE m

Advance(run) == [run EXCEPT !.current_step_index = @ + 1]

AdvanceTwoClear(run) ==
    [run EXCEPT !.current_step_index = @ + 2, !.current_vendor_task_id = NoVendorTask]

AdvanceClear(run) ==
    [run EXCEPT !.current_step_index = @ + 1, !.current_vendor_task_id = NoVendorTask]

DoneIfPastEnd(run) ==
    IF run.current_step_index >= run.total_steps THEN [run EXCEPT !.status = "DONE"] ELSE run

DoneAtEndKeepingIndex(run) == [run EXCEPT !.status = "DONE"]

DoneAtEnd(run) == [run EXCEPT !.status = "DONE", !.current_step_index = run.total_steps]

LoopToSecondStep(run) ==
    [run EXCEPT !.current_step_index = 1, !.current_vendor_task_id = NoVendorTask]

LoopToStart(run) ==
    [run EXCEPT !.current_step_index = 0, !.current_vendor_task_id = NoVendorTask]

\* the result of _apply_manual_decision: the committed run and task, whether it
\* raised, and whether it went on to _ensure_step_started
ApplyManualDecision(run, task, code, decision, minutes) ==
    LET bad == [run |-> run, task |-> task, err |-> "BadDecision", ensure |-> FALSE]
        taskDone == [task EXCEPT !.status = "DONE"]
    IN
    CASE code = "ORDER_DECISION" ->
            IF decision = "POSTPONE"
            THEN [run |-> [run EXCEPT !.status = "CANCELED"],
                  task |-> [task EXCEPT !.status = "PENDING", !.release_min = Minutes(minutes)],
                  err |-> "ok", ensure |-> FALSE]
            ELSE IF decision = "COMPLETED"
            THEN [run |-> DoneIfPastEnd(Advance(run)), task |-> taskDone,
                  err |-> "ok", ensure |-> FALSE]
            ELSE bad
      [] code = "CLEANUP_HAS_DISHES" ->
            IF decision = "NO"
            THEN [run |-> DoneAtEnd(run), task |-> taskDone, err |-> "ok", ensure |-> FALSE]
            ELSE IF decision = "YES"
            THEN [run |-> Advance(run), task |-> task, err |-> "ok", ensure |-> TRUE]
            ELSE bad
      [] code = "CLEANUP_MORE_DISHES" ->
            IF decision = "YES"
            THEN [run |-> LoopToStart(run), task |-> task, err |-> "ok", ensure |-> TRUE]
            ELSE IF decision = "NO"
            THEN [run |-> DoneAtEnd(run), task |-> taskDone, err |-> "ok", ensure |-> FALSE]
            ELSE bad
      [] code \in DeliveryOrBillingCodes ->
            IF AdvanceClear(run).current_step_index >= run.total_steps
            THEN [run |-> [AdvanceClear(run) EXCEPT !.status = "DONE"], task |-> taskDone,
                  err |-> "ok", ensure |-> FALSE]
            ELSE [run |-> AdvanceClear(run), task |-> task, err |-> "ok", ensure |-> TRUE]
      [] OTHER -> [run |-> AdvanceClear(run), task |-> task, err |-> "ok", ensure |-> TRUE]

\* confirm_current_step up to its first vendor call
ConfirmBegin(p) ==
    /\ Accepts(p)
    /\ \E run_id \in 1..regime.runs, inp \in ConfirmInputs :
          LET chk == ConfirmCheck(run_id)
              pr == [IdleProc EXCEPT !.op = "confirm", !.run_id = run_id]
          IN IF chk # "ok"
             THEN /\ Settle(p, Finished(pr, chk))
                  /\ UNCHANGED <<db, lastWriter>>
                  /\ Record(0, <<>>)
             ELSE LET run == runs[run_id]
                      i == StepAt(steps[run_id], run.current_step_index)
                      res == ApplyManualDecision(run, tasks[run.task_id],
                                                 steps[run_id][i].step_code, inp[1], inp[2])
                      e == EnsureStepStarted(res.run, steps[run_id])
                  IN /\ steps' = [steps EXCEPT ![run_id][i] = RecordDecision(@, inp[1], inp[2])]
                     /\ UNCHANGED vendor
                     /\ IF res.err # "ok"
                        THEN /\ Settle(p, Finished(pr, res.err))
                             /\ UNCHANGED <<runs, tasks, lastWriter>>
                             /\ Record(0, <<>>)
                        ELSE /\ runs' = [runs EXCEPT ![run_id] = res.run]
                             /\ tasks' = [tasks EXCEPT ![run.task_id] = res.task]
                             /\ lastWriter' = [lastWriter EXCEPT ![run_id] =
                                                  IF res.ensure /\ e = "create" THEN p ELSE 0]
                             /\ Settle(p,
                                   LET ap == [pr EXCEPT !.applied = TRUE] IN
                                   IF ~res.ensure \/ e = "return" THEN Finished(ap, "ok")
                                   ELSE IF e = "create" THEN [ap EXCEPT !.pc = "c_create"]
                                   ELSE Finished(ap, EnsureError(e)))
                             /\ Record(0, <<inp[1]>>)
    /\ UNCHANGED cfg

\* ---------------------------------------------------------------- tick
RunningIds == SelectSeq([i \in 1..Len(runs) |-> i], LAMBDA r : runs[r].status = "RUNNING")

\* tick loads the RUNNING runs into its session
TickBegin(p) ==
    /\ Accepts(p)
    /\ regime.history => hist.ticks < MaxTicks
    /\ LET q == RunningIds
           pr == [IdleProc EXCEPT !.op = "tick", !.queue = q,
                                  !.snap = [i \in 1..Len(q) |-> Loaded(runs[q[i]])]]
       IN Settle(p,
                       IF q = <<>> THEN Finished(pr, "ok") ELSE [pr EXCEPT !.pc = "t_next"])
    /\ UNCHANGED <<db, lastWriter, cfg>>
    /\ Record(1, <<>>)

TickAdvanceAbortOnFailure(pr, changed, done, fail, committed) ==
    LET q == IF fail > 0 THEN <<>> ELSE Tail(pr.queue) IN
    [pr EXCEPT !.queue = q,
               !.snap = IF committed THEN [i \in 1..Len(q) |-> Expired] ELSE Tail(pr.snap),
               !.progressed = @ + changed, !.finished = @ + done, !.failed = @ + fail,
               !.pc = IF q = <<>> THEN "done" ELSE "t_next",
               !.result = IF q = <<>> THEN "ok" ELSE @]

TickAdvanceFinishedAsFailed(pr, changed, done, fail, committed) ==
    LET q == Tail(pr.queue) IN
    [pr EXCEPT !.queue = q,
               !.snap = IF committed THEN [i \in 1..Len(q) |-> Expired] ELSE Tail(pr.snap),
               !.progressed = @ + changed, !.finished = @ + done, !.failed = @ + fail + done,
               !.pc = IF q = <<>> THEN "done" ELSE "t_next",
               !.result = IF q = <<>> THEN "ok" ELSE @]

TickAdvanceAlwaysProgressed(pr, changed, done, fail, committed) ==
    LET q == Tail(pr.queue) IN
    [pr EXCEPT !.queue = q,
               !.snap = IF committed THEN [i \in 1..Len(q) |-> Expired] ELSE Tail(pr.snap),
               !.progressed = @ + 1, !.finished = @ + done, !.failed = @ + fail,
               !.pc = IF q = <<>> THEN "done" ELSE "t_next",
               !.result = IF q = <<>> THEN "ok" ELSE @]

\* _progress_one_run returned (changed, done) or raised for the head of the
\* queue; a commit expired every object of the session
TickAdvance(pr, changed, done, fail, committed) ==
    LET q == Tail(pr.queue) IN
    [pr EXCEPT !.queue = q,
               !.snap = IF committed THEN [i \in 1..Len(q) |-> Expired] ELSE Tail(pr.snap),
               !.progressed = @ + changed, !.finished = @ + done, !.failed = @ + fail,
               !.pc = IF q = <<>> THEN "done" ELSE "t_next",
               !.result = IF q = <<>> THEN "ok" ELSE @]

\* the session waits on a vendor or Robot API call for the head of the queue
TickAwait(pr, pc, obj, committed) ==
    [pr EXCEPT !.pc = pc,
               !.snap = [i \in 1..Len(pr.snap) |->
                            IF i = 1 THEN obj ELSE IF committed THEN Expired ELSE pr.snap[i]]]

\* the except branch of tick
FailRow(row, obj, err) == Flush(row, obj, [status |-> "FAILED", last_error |-> err])

FinishRowStillRunning(row, obj) == row

\* _finish_run(success=True)
FinishRow(row, obj) == Flush(row, obj, [status |-> "DONE"])

FinishTaskLeftAlone(task) == task

FinishTask(task) == [task EXCEPT !.status = "DONE"]

CompleteRowKeepingVendorTask(row, obj) ==
    Flush(row, obj, [current_step_index |-> obj.row.current_step_index + 1])

\* vendor completion (actType 1001) written from the loaded object
CompleteRow(row, obj) ==
    Flush(row, obj, [current_step_index |-> obj.row.current_step_index + 1,
                     current_vendor_task_id |-> NoVendorTask])

\* offline reassign
OfflineRow(row, obj) ==
    Flush(row, obj, [status |-> "FAILED", last_error |-> "robot offline -> requeued"])

RequeueTaskAlways(task) == [task EXCEPT !.status = "READY", !.assigned_robot_id = NoRobot]

RequeueTask(task) ==
    IF task.status \notin TerminalTaskStatus
    THEN [task EXCEPT !.status = "READY", !.assigned_robot_id = NoRobot]
    ELSE task

\* _progress_one_run after the offline check, on the loaded object obj of run r
ProgressFrom(p, r, obj) ==
    IF obj.row.current_step_index >= obj.row.total_steps
    THEN /\ tasks' = [tasks EXCEPT ![obj.row.task_id] = FinishTask(@)]
         /\ runs' = [runs EXCEPT ![r] = FinishRow(@, obj)]
         /\ lastWriter' = [lastWriter EXCEPT ![r] = 0]
         /\ Settle(p, TickAdvance(procs[p], 1, 1, 0, TRUE))
         /\ UNCHANGED <<steps, vendor>>
    ELSE IF StepAt(steps[r], obj.row.current_step_index) = 0
    THEN /\ runs' = [runs EXCEPT ![r] = FailRow(@, obj, "Workflow step not found")]
         /\ lastWriter' = [lastWriter EXCEPT ![r] = 0]
         /\ Settle(p, TickAdvance(procs[p], 0, 0, 1, TRUE))
         /\ UNCHANGED <<tasks, steps, vendor>>
    ELSE IF steps[r][StepAt(steps[r], obj.row.current_step_index)].step_type = "MANUAL_CONFIRM"
    THEN /\ Settle(p, TickAdvance(procs[p], 0, 0, 0, FALSE))
         /\ UNCHANGED <<db, lastWriter>>
    ELSE IF obj.row.current_vendor_task_id = NoVendorTask
    THEN IF safe_mode
         THEN /\ runs' = [runs EXCEPT ![r] = FailRow(@, obj, "SafeModeBlocked")]
              /\ lastWriter' = [lastWriter EXCEPT ![r] = 0]
              /\ Settle(p, TickAdvance(procs[p], 0, 0, 1, TRUE))
              /\ UNCHANGED <<tasks, steps, vendor>>
         ELSE /\ Settle(p, TickAwait(procs[p], "t_create", obj, FALSE))
              /\ UNCHANGED <<db, lastWriter>>
    ELSE /\ Settle(p, TickAwait(procs[p], "t_poll", obj, FALSE))
         /\ UNCHANGED <<db, lastWriter>>

\* tick takes the next run of its list
TickNext(p) ==
    /\ procs[p].pc = "t_next"
    /\ LET r == Head(procs[p].queue)
           obj == Load(Head(procs[p].snap), r)
       IN IF auto_reassign
          THEN /\ Settle(p, TickAwait(procs[p], "t_state", obj, FALSE))
               /\ UNCHANGED <<db, lastWriter>>
          ELSE ProgressFrom(p, r, obj)
    /\ UNCHANGED cfg
    /\ Record(0, <<>>)

StateOutcomes == {"raise", "online", "unknown", "offline"}

OfflineRequeue(p, r, obj) ==
    /\ tasks' = [tasks EXCEPT ![obj.row.task_id] = RequeueTask(@)]
    /\ runs' = [runs EXCEPT ![r] = OfflineRow(@, obj)]
    /\ lastWriter' = [lastWriter EXCEPT ![r] = 0]
    /\ Settle(p, TickAdvance(procs[p], 1, 1, 0, TRUE))
    /\ UNCHANGED <<steps, vendor>>

OfflineUnlessOnline(outcome) == outcome \notin {"raise", "online"}

\* the fetch returned a state whose isOnline is False
Offline(outcome) == outcome = "offline"

\* _handle_offline_reassign and what follows it, get_state having answered outcome
StateReturns(p, outcome) ==
    /\ procs[p].pc = "t_state"
    /\ LET r == Head(procs[p].queue)
           obj == Head(procs[p].snap)
       IN IF ~Offline(outcome) THEN ProgressFrom(p, r, obj)
          ELSE IF obj.row.current_vendor_task_id # NoVendorTask
          THEN /\ Settle(p, TickAwait(procs[p], "t_cancel", obj, FALSE))
               /\ UNCHANGED <<db, lastWriter>>
          ELSE OfflineRequeue(p, r, obj)

\* robot_api.get_state returned to _handle_offline_reassign
TickStateReturns(p) ==
    /\ \E outcome \in StateOutcomes : StateReturns(p, outcome)
    /\ UNCHANGED cfg
    /\ Record(0, <<>>)

\* task_cancel returned or raised (its failure is only logged)
TickCancelReturns(p) ==
    /\ procs[p].pc = "t_cancel"
    /\ OfflineRequeue(p, Head(procs[p].queue), Head(procs[p].snap))
    /\ UNCHANGED cfg
    /\ Record(0, <<>>)

PollOutcomes == {"raise", "complete", "other"}

\* task_state_v2 returned to _progress_one_run
TickPollReturns(p) ==
    /\ procs[p].pc = "t_poll"
    /\ LET r == Head(procs[p].queue)
           obj == Head(procs[p].snap)
           row1 == CompleteRow(runs[r], obj)
           fresh == Loaded(row1)
           e == EnsureStepStarted(row1, steps[r])
       IN \E outcome \in PollOutcomes :
            IF outcome = "raise"
            THEN /\ runs' = [runs EXCEPT ![r] = FailRow(@, obj, "VendorError")]
                 /\ lastWriter' = [lastWriter EXCEPT ![r] = 0]
                 /\ Settle(p, TickAdvance(procs[p], 0, 0, 1, TRUE))
                 /\ UNCHANGED <<tasks, steps, vendor>>
            ELSE IF outcome = "other"
            THEN /\ Settle(p, TickAdvance(procs[p], 0, 0, 0, FALSE))
                 /\ UNCHANGED <<db, lastWriter>>
            ELSE /\ lastWriter' = [lastWriter EXCEPT ![r] = 0]
                 /\ UNCHANGED <<steps, vendor>>
                 /\ IF row1.current_step_index >= row1.total_steps
                    THEN /\ tasks' = [tasks EXCEPT ![row1.task_id] = FinishTask(@)]
                         /\ runs' = [runs EXCEPT ![r] = FinishRow(row1, fresh)]
                         /\ Settle(p, TickAdvance(procs[p], 1, 1, 0, TRUE))
                    ELSE IF e = "return"
                    THEN /\ runs' = [runs EXCEPT ![r] = row1]
                         /\ Settle(p, TickAdvance(procs[p], 1, 0, 0, TRUE))
                         /\ UNCHANGED tasks
                    ELSE IF e = "create"
                    THEN /\ runs' = [runs EXCEPT ![r] = row1]
                         /\ Settle(p, TickAwait(procs[p], "t_create", fresh, TRUE))
                         /\ UNCHANGED tasks
                    ELSE /\ runs' = [runs EXCEPT ![r] = FailRow(row1, fresh, EnsureError(e))]
                         /\ Settle(p, TickAdvance(procs[p], 0, 0, 1, TRUE))
                         /\ UNCHANGED tasks
    /\ UNCHANGED cfg
    /\ Record(0, <<>>)

\* task_create_v3 returned to _ensure_step_started called from tick
TickCreateReturns(p) ==
    /\ procs[p].pc = "t_create"
    /\ LET r == Head(procs[p].queue)
           obj == Head(procs[p].snap)
       IN \E outcome \in CreateOutcomes :
            /\ lastWriter' = [lastWriter EXCEPT ![r] = 0]
            /\ UNCHANGED <<tasks, steps>>
            /\ IF outcome = "ok"
               THEN /\ vendor' = Append(vendor, r)
                    /\ runs' = [runs EXCEPT ![r] =
                                   Flush(@, obj, [current_vendor_task_id |-> Len(vendor) + 1])]
                    /\ Settle(p, TickAdvance(procs[p], 1, 0, 0, TRUE))
               ELSE /\ runs' = [runs EXCEPT ![r] = FailRow(@, obj, "VendorError")]
                    /\ Settle(p, TickAdvance(procs[p], 0, 0, 1, TRUE))
                    /\ UNCHANGED vendor
    /\ UNCHANGED cfg
    /\ Record(0, <<>>)

Next ==
    \/ create_task
    \/ set_status
    \/ \E p \in Procs : StartRunBegin(p)
    \/ \E p \in Procs : StartRunPlanned(p)
    \/ \E p \in Procs : CreateReturns(p)
    \/ \E p \in Procs : ConfirmBegin(p)
    \/ \E p \in Procs : TickBegin(p)
    \/ \E p \in Procs : TickNext(p)
    \/ \E p \in Procs : TickPollReturns(p)
    \/ \E p \in Procs : TickCreateReturns(p)

NextOffline ==
    \/ Next
    \/ \E p \in Procs : TickStateReturns(p)
    \/ \E p \in Procs : TickCancelReturns(p)

Spec == Init /\ [][Next]_vars

SpecOffline == InitOffline /\ [][NextOffline]_vars

\* AUTO_REASSIGN_ON_OFFLINE set either way
InitReassign ==
    /\ Database
    /\ Monitor
    /\ client = IdleClient
    /\ safe_mode = FALSE
    /\ auto_reassign \in BOOLEAN
    /\ regime \in OfflineRegimes

SpecReassign == InitReassign /\ [][NextOffline]_vars

\* ---------------------------------------------------------------- one run followed
\* the operator switches SAFE_MODE (the service restarts with the other setting,
\* or the setting is read again at the next call)
switch_safe_mode ==
    /\ safe_mode' = ~safe_mode
    /\ out' = NoResponse
    /\ UNCHANGED <<db, procs, lastWriter, auto_reassign, regime, hist, client, poller, resolver>>

InitScenario ==
    /\ Database
    /\ Monitor
    /\ client = IdleClient
    /\ safe_mode \in BOOLEAN
    /\ auto_reassign = FALSE
    /\ regime \in ScenarioRegimes

NextScenario ==
    \/ create_task
    \/ switch_safe_mode
    \/ \E p \in Procs : StartRunBegin(p)
    \/ \E p \in Procs : StartRunPlanned(p)
    \/ \E p \in Procs : CreateReturns(p)
    \/ \E p \in Procs : ConfirmBegin(p)
    \/ \E p \in Procs : TickBegin(p)
    \/ \E p \in Procs : TickNext(p)
    \/ \E p \in Procs : TickPollReturns(p)
    \/ \E p \in Procs : TickCreateReturns(p)

SpecScenario == InitScenario /\ [][NextScenario]_vars

\* ---------------------------------------------------------------- vendor client
\* One call of AutoXingTaskClient (vendor_task_client.py) against the responses
\* the vendor gives to its successive requests: http is the transport status,
\* status the "status" field of the JSON body of a 200 response.
VendorCalls == {"task_create_v3", "task_state_v2", "task_cancel_v3", "task_cancel_v2"}

Unauthorized == {401, 403}

VendorResponses ==
    {[http |-> 200, status |-> st] : st \in {200, 401, 403, 500}}
        \cup {[http |-> h, status |-> 0] : h \in {401, 403, 500}}

\* the requests one call can send before it returns
MaxRequests == 3

\* resp.raise_for_status()
RaisesForStatus(resp) == resp.http >= 400

\* the call's outcome: requests sent, times the cached token was cleared, tokens
\* fetched, and what it returned or raised
VendorCall(call, responses, cached) ==
    LET first == responses[1]
        again == first.http \in Unauthorized
        n1 == IF again THEN 2 ELSE 1
        resp == responses[n1]
        c1 == IF again THEN 1 ELSE 0
        f1 == (IF cached THEN 0 ELSE 1) + c1
        relogin == ~RaisesForStatus(resp) /\ resp.status \in Unauthorized
        n2 == IF relogin THEN n1 + 1 ELSE n1
        last == responses[n2]
        done == [sent |-> n2, cleared |-> c1 + (IF relogin THEN 1 ELSE 0),
                 fetched |-> f1 + (IF relogin THEN 1 ELSE 0), result |-> "ok"]
    IN IF RaisesForStatus(resp)
       THEN [sent |-> n1, cleared |-> c1, fetched |-> f1, result |-> "HTTPStatusError"]
       ELSE IF RaisesForStatus(last) THEN [done EXCEPT !.result = "HTTPStatusError"]
       ELSE IF call = "task_create_v3" /\ last.status # 200
            THEN [done EXCEPT !.result = "RuntimeError"]
       ELSE done

InitClient ==
    /\ Database
    /\ Monitor
    /\ safe_mode = FALSE
    /\ auto_reassign = FALSE
    /\ regime \in ScenarioRegimes
    /\ \E call \in VendorCalls, cached \in BOOLEAN,
          responses \in [1..MaxRequests -> VendorResponses] :
          client = [IdleClient EXCEPT !.pc = "calling", !.call = call, !.cached = cached,
                                      !.responses = responses]

\* the call runs to its return
vendor_call ==
    /\ client.pc = "calling"
    /\ LET res == VendorCall(client.call, client.responses, client.cached)
       IN client' = [client EXCEPT !.pc = "returned", !.sent = res.sent,
                                   !.cleared = res.cleared, !.fetched = res.fetched,
                                   !.result = res.result]
    /\ UNCHANGED <<engine, poller, resolver>>

NextClient == vendor_call

SpecClient == InitClient /\ [][NextClient]_vars

\* ---------------------------------------------------------------- robot state poller
\* RobotStatePoller (robot_monitor/poller.py): start and stop are called by the
\* application, _loop runs as a task of the event loop and gives way at each of
\* its awaits.
\* robot_ids, in polling order
RobotIds == <<"R1", "R2">>

\* the keys of a state payload, in sorted order
StateKeys == <<"battery", "moveState">>

\* the payloads get_state returns: (key, value) pairs in the order received
PolledStates ==
    {<<<<"battery", 50>>, <<"moveState", 1>>>>,
     <<<<"moveState", 1>>, <<"battery", 50>>>>,
     <<<<"battery", 40>>, <<"moveState", 1>>>>}

KeyRank(k) == CHOOSE i \in DOMAIN StateKeys : StateKeys[i] = k

\* json.dumps(d, sort_keys=True, ...): the pairs in key order
StableHash(d) == SortSeq(d, LAMBDA a, b : KeyRank(a[1]) < KeyRank(b[1]))

HashChangedAlways(last, h) == TRUE

\* self._last_hash.get(rid) != h
HashChanged(last, h) == last # h

TaskRunningNever(task) == FALSE

\* self._task and not self._task.done()
TaskRunning(task) == task = "alive"

\* the poller with nothing published or fetched in this step
Quiesce(po) == [po EXCEPT !.event = NoEvent, !.fetched = NoFetch]

\* asyncio.create_task(self._loop()): the loop waits in its startup delay
NewLoop == [pc |-> "boot", i |-> 0]

poller_start ==
    /\ poller' = IF TaskRunning(poller.task) THEN Quiesce(poller)
                  ELSE [Quiesce(poller) EXCEPT !.stop = FALSE, !.task = "alive",
                                               !.loops = Append(@, NewLoop)]
    /\ UNCHANGED <<engine, client, resolver>>

\* stop sets the event and waits for self._task (if there is one)
poller_stop ==
    /\ ~poller.stopping
    /\ poller' = [Quiesce(poller) EXCEPT !.stop = TRUE, !.stopping = poller.task = "alive"]
    /\ UNCHANGED <<engine, client, resolver>>

\* the task stop waits for has finished
StopReturns ==
    /\ poller.stopping
    /\ poller.task # "alive"
    /\ poller' = [Quiesce(poller) EXCEPT !.stopping = FALSE]
    /\ UNCHANGED <<engine, client, resolver>>

\* loop j finishes; self._task is the last loop created
Exit(po, j) ==
    [po EXCEPT !.loops = SubSeq(@, 1, j - 1) \o SubSeq(@, j + 1, Len(@)),
               !.task = IF j = Len(po.loops) THEN "done" ELSE @]

\* wait_for(self._task, timeout=3) timed out: the task is cancelled at the await
\* it waits in, the CancelledError is not an Exception and ends the loop
StopTimeout ==
    /\ poller.stopping
    /\ poller.task = "alive"
    /\ poller' = [Exit(Quiesce(poller), Len(poller.loops)) EXCEPT !.stopping = FALSE]
    /\ UNCHANGED <<engine, client, resolver>>

LoopAt(po, j, pc, i) == [po EXCEPT !.loops[j] = [pc |-> pc, i |-> i]]

\* while not self._stop.is_set(): the next cycle starts with the first robot
LoopHead(po, j) == IF po.stop THEN Exit(po, j) ELSE LoopAt(po, j, "fetch", 1)

\* the startup delay is over
LoopBoot(j) ==
    /\ poller.loops[j].pc = "boot"
    /\ poller' = LoopHead(Quiesce(poller), j)
    /\ UNCHANGED <<engine, client, resolver>>

\* get_state returned state: cache it and publish it if its hash is new
Fetched(po, j, rid, state) ==
    LET h == StableHash(state)
        cached == [po EXCEPT !.cache[rid] = state,
                             !.fetched = [robot_id |-> rid, ok |-> TRUE, state |-> state]]
    IN IF HashChanged(po.last_hash[rid], h)
       THEN [LoopAt(cached, j, "publish", po.loops[j].i) EXCEPT
                !.last_hash[rid] = h,
                !.event = [type |-> "robot.state_updated", robot_id |-> rid, state |-> state],
                !.published[rid] = state,
                !.errors[rid] = FALSE]
       ELSE LoopAt(cached, j, "pause", po.loops[j].i)

FetchFailedForgetting(po, j, rid) ==
    [LoopAt(po, j, "publish", po.loops[j].i) EXCEPT
        !.fetched = [robot_id |-> rid, ok |-> FALSE, state |-> NoState],
        !.event = [type |-> "robot.state_error", robot_id |-> rid, state |-> NoState],
        !.last_hash[rid] = NoHash,
        !.errors[rid] = TRUE]

\* get_state raised: publish robot.state_error
FetchFailed(po, j, rid) ==
    [LoopAt(po, j, "publish", po.loops[j].i) EXCEPT
        !.fetched = [robot_id |-> rid, ok |-> FALSE, state |-> NoState],
        !.event = [type |-> "robot.state_error", robot_id |-> rid, state |-> NoState],
        !.errors[rid] = TRUE]

FetchReturns(j) ==
    /\ poller.loops[j].pc = "fetch"
    /\ LET rid == RobotIds[poller.loops[j].i] IN
          \/ \E state \in PolledStates : poller' = Fetched(Quiesce(poller), j, rid, state)
          \/ poller' = FetchFailed(Quiesce(poller), j, rid)
    /\ UNCHANGED <<engine, client, resolver>>

\* publish_event returned
PublishReturns(j) ==
    /\ poller.loops[j].pc = "publish"
    /\ poller' = LoopAt(Quiesce(poller), j, "pause", poller.loops[j].i)
    /\ UNCHANGED <<engine, client, resolver>>

\* the pause between robots is over: the next robot, or the wait for the next cycle
PauseReturns(j) ==
    /\ poller.loops[j].pc = "pause"
    /\ poller' = IF poller.loops[j].i < Len(RobotIds)
                  THEN LoopAt(Quiesce(poller), j, "fetch", poller.loops[j].i + 1)
                  ELSE LoopAt(Quiesce(poller), j, "wait", 0)
    /\ UNCHANGED <<engine, client, resolver>>

\* the interval elapsed or the stop event fired
WaitReturns(j) ==
    /\ poller.loops[j].pc = "wait"
    /\ poller' = LoopHead(Quiesce(poller), j)
    /\ UNCHANGED <<engine, client, resolver>>

InitPoller ==
    /\ Database
    /\ Monitor
    /\ client = IdleClient
    /\ safe_mode = FALSE
    /\ auto_reassign = FALSE
    /\ regime \in ScenarioRegimes

LoopSteps ==
    \E j \in 1..Len(poller.loops) :
        LoopBoot(j) \/ FetchReturns(j) \/ PublishReturns(j) \/ PauseReturns(j) \/ WaitReturns(j)

NextPoller ==
    \/ poller_start
    \/ poller_stop
    \/ StopReturns
    \/ StopTimeout
    \/ \E j \in 1..Len(poller.loops) : LoopBoot(j)
    \/ \E j \in 1..Len(poller.loops) : FetchReturns(j)
    \/ \E j \in 1..Len(poller.loops) : PublishReturns(j)
    \/ \E j \in 1..Len(poller.loops) : PauseReturns(j)
    \/ \E j \in 1..Len(poller.loops) : WaitReturns(j)

SpecPoller == InitPoller /\ [][NextPoller]_vars

\* every sleep and every call of the loop returns (the HTTP calls have timeouts),
\* and so does the bounded wait of stop
SpecPollerLive ==
    InitPoller /\ [][NextPoller]_vars /\ WF_vars(LoopSteps) /\ WF_vars(StopTimeout)
                /\ WF_vars(StopReturns)

\* ---------------------------------------------------------------- POI resolver
\* Strings are sequences of atoms: a word, a digit or a whitespace character.
Whitespace == {" ", "\t"}

Digits == {"1", "2"}

\* str.lower() and str.upper() on the atoms that occur
LowerCase(a) ==
    CASE a \in {"Table", "TABLE"} -> "table"
      [] a \in {"Kitchen", "KITCHEN"} -> "kitchen"
      [] a = "Dish" -> "dish"
      [] a = "Room" -> "room"
      [] a = "T" -> "t"
      [] OTHER -> a

UpperCase(a) ==
    CASE a \in {"table", "Table"} -> "TABLE"
      [] a \in {"kitchen", "Kitchen"} -> "KITCHEN"
      [] a = "poi" -> "POI"
      [] OTHER -> a

Lower(s) == [i \in DOMAIN s |-> LowerCase(s[i])]

Upper(s) == [i \in DOMAIN s |-> UpperCase(s[i])]

\* str.strip()
Strip(s) ==
    LET inked == {i \in DOMAIN s : s[i] \notin Whitespace} IN
    IF inked = {} THEN <<>>
    ELSE SubSeq(s, CHOOSE i \in inked : \A j \in inked : i <= j,
                   CHOOSE i \in inked : \A j \in inked : i >= j)

RECURSIVE Collapse(_)
\* re.sub(r"\s+", " ", s)
Collapse(s) ==
    IF s = <<>> THEN <<>>
    ELSE IF Head(s) \notin Whitespace THEN <<Head(s)>> \o Collapse(Tail(s))
    ELSE IF Len(s) > 1 /\ s[2] \in Whitespace THEN Collapse(Tail(s))
    ELSE <<" ">> \o Collapse(Tail(s))

\* norm(s) of _resolve_poi
Norm(s) == Collapse(Lower(Strip(s)))

\* sub in s
Contains(sub, s) ==
    \E i \in 0..(Len(s) - Len(sub)) : SubSeq(s, i + 1, i + Len(sub)) = sub

\* re.search(r"(\d+)", ref): the first run of digits (<<>>: no match)
FirstDigits(ref) ==
    LET at == {i \in DOMAIN ref : ref[i] \in Digits} IN
    IF at = {} THEN <<>>
    ELSE LET first == CHOOSE i \in at : \A j \in at : i <= j
             last == CHOOSE k \in first..Len(ref) :
                        /\ \A j \in first..k : ref[j] \in Digits
                        /\ k = Len(ref) \/ ref[k + 1] \notin Digits
         IN SubSeq(ref, first, last)

NullPoi == [id |-> <<>>, name |-> <<>>, areaId |-> NoArea]

NoMapping == <<>>

\* the POIs the vendor may report for the robot
PoiCatalogue ==
    {[id |-> <<"p1">>, name |-> <<"Table", " ", "1">>, areaId |-> "A"],
     [id |-> <<"p2">>, name |-> <<"Room", " ", "1", "2">>, areaId |-> "A"],
     [id |-> <<"p3">>, name |-> <<"KITCHEN">>, areaId |-> "B"],
     [id |-> <<"p4">>, name |-> <<"Dish", "\t", " ", "wash">>, areaId |-> "A"],
     [id |-> <<"p5">>, name |-> <<"operator", " ", "dock">>, areaId |-> "B"],
     [id |-> <<"1">>, name |-> <<>>, areaId |-> "B"]}

\* the longest POI list drawn
MaxPois == 2

PoiLists ==
    {l \in UNION {[1..n -> PoiCatalogue] : n \in 0..MaxPois} :
        \A i, j \in DOMAIN l : i # j => l[i] # l[j]}

KindInputs ==
    {<<"TABLE">>, <<" ", "table">>, <<"KITCHEN">>, <<"OPERATOR">>, <<"WASHING">>,
     <<"CHARGING">>, <<"poi">>}

RefInputs == {<<>>, <<"1">>, <<" ", "T", "1", "2">>, <<"main">>, <<"p1">>, <<"dock">>}

AreaInputs == {"A", "B", NoArea}

\* the PoiMapping tables drawn: empty, or one row
MappingStores ==
    {{}} \cup
    {{[kind |-> k, ref |-> r, poi_id |-> id]} :
        k \in {<<"TABLE">>, <<"KITCHEN">>}, r \in {<<"1">>, <<"main">>},
        id \in {<<"p1">>, <<"p3">>, <<"p9">>}}

\* PoiMappingService.get(kind, ref): the poi_id of the row, if there is one
MappingGet(store, kind, ref) ==
    IF \E m \in store : m.kind = kind /\ m.ref = ref
    THEN (CHOOSE m \in store : m.kind = kind /\ m.ref = ref).poi_id
    ELSE NoMapping

\* RobotAPIService.list_pois
ListPois(pois, area, only_current_area) ==
    IF only_current_area /\ area # NoArea
    THEN SelectSeq(pois, LAMBDA p : p.areaId = area)
    ELSE pois

\* next((p for p in pois if T(p)), None), matching the POIs p with T(p) in order
FirstWhere(matching) == IF matching = <<>> THEN NullPoi ELSE Head(matching)

FirstNamed(pois, patterns) ==
    FirstWhere(SelectSeq(pois, LAMBDA p : \E w \in patterns : Contains(<<w>>, Norm(p.name))))

\* 1) the mapping layer: the current area first, then all areas
ByMapping(store, area, pois, kind, ref) ==
    LET poi_id == MappingGet(store, kind, ref)
        direct == FirstWhere(SelectSeq(ListPois(pois, area, TRUE), LAMBDA p : p.id = poi_id))
    IN IF poi_id = NoMapping THEN NullPoi
       ELSE IF direct # NullPoi THEN direct
       ELSE FirstWhere(SelectSeq(ListPois(pois, area, FALSE), LAMBDA p : p.id = poi_id))

\* 2) direct id
ById(pois, ref) == FirstWhere(SelectSeq(pois, LAMBDA p : p.id = ref))

ByNameAnyDigitsFirst(pois, kind, ref) ==
    CASE kind = <<"TABLE">> ->
            LET num == FirstDigits(ref) IN
            IF num = <<>> THEN NullPoi
            ELSE FirstWhere(SelectSeq(pois, LAMBDA p : Contains(num, Norm(p.name))))
      [] kind = <<"KITCHEN">> -> FirstNamed(pois, {"kitchen"})
      [] kind = <<"OPERATOR">> -> FirstNamed(pois, {"operator"})
      [] kind = <<"WASHING">> ->
            IF FirstNamed(pois, {"wash", "dish", "sink"}) # NullPoi
            THEN FirstNamed(pois, {"wash", "dish", "sink"})
            ELSE FirstNamed(pois, {"kitchen"})
      [] kind = <<"CHARGING">> -> FirstNamed(pois, {"charg", "dock", "pile"})
      [] OTHER ->
            FirstWhere(SelectSeq(pois, LAMBDA p :
                          Norm(ref) # <<>> /\ Contains(Norm(ref), Norm(p.name))))

\* 3) fallback by kind and name patterns
ByName(pois, kind, ref) ==
    CASE kind = <<"TABLE">> ->
            LET num == FirstDigits(ref)
                table == FirstWhere(SelectSeq(pois, LAMBDA p :
                            /\ \E w \in {"table", "tbl"} : Contains(<<w>>, Norm(p.name))
                            /\ Contains(num, Norm(p.name))))
            IN IF num = <<>> THEN NullPoi
               ELSE IF table # NullPoi THEN table
               ELSE FirstWhere(SelectSeq(pois, LAMBDA p : Contains(num, Norm(p.name))))
      [] kind = <<"KITCHEN">> -> FirstNamed(pois, {"kitchen"})
      [] kind = <<"OPERATOR">> -> FirstNamed(pois, {"operator"})
      [] kind = <<"WASHING">> ->
            IF FirstNamed(pois, {"wash", "dish", "sink"}) # NullPoi
            THEN FirstNamed(pois, {"wash", "dish", "sink"})
            ELSE FirstNamed(pois, {"kitchen"})
      [] kind = <<"CHARGING">> -> FirstNamed(pois, {"charg", "dock", "pile"})
      [] OTHER ->
            FirstWhere(SelectSeq(pois, LAMBDA p :
                          Norm(ref) # <<>> /\ Contains(Norm(ref), Norm(p.name))))

ResolvePoiIdFirst(store, area, pois, target_kind, target_ref) ==
    LET kind == Upper(Strip(target_kind))
        ref == Strip(target_ref)
        all == ListPois(pois, area, FALSE)
    IN IF ById(all, ref) # NullPoi THEN ById(all, ref)
       ELSE IF ByMapping(store, area, pois, kind, ref) # NullPoi
       THEN ByMapping(store, area, pois, kind, ref)
       ELSE ByName(all, kind, ref)

ResolvePoiMappingOnly(store, area, pois, target_kind, target_ref) ==
    LET kind == Upper(Strip(target_kind))
        ref == Strip(target_ref)
        all == ListPois(pois, area, FALSE)
    IN IF MappingGet(store, kind, ref) # NoMapping
       THEN ByMapping(store, area, pois, kind, ref)
       ELSE IF ById(all, ref) # NullPoi THEN ById(all, ref)
       ELSE ByName(all, kind, ref)

\* _resolve_poi with the robot in area and the vendor reporting pois
ResolvePoi(store, area, pois, target_kind, target_ref) ==
    LET kind == Upper(Strip(target_kind))
        ref == Strip(target_ref)
        all == ListPois(pois, area, FALSE)
    IN IF ByMapping(store, area, pois, kind, ref) # NullPoi
       THEN ByMapping(store, area, pois, kind, ref)
       ELSE IF ById(all, ref) # NullPoi THEN ById(all, ref)
       ELSE ByName(all, kind, ref)

\* ---------------------------------------------------------------- planner
Main == <<"main">>

\* the target (kind, ref) of each NAVIGATE step of plan_steps, in step order
NavTargets(task) ==
    CASE task.task_type = "ORDERING" -> <<<<<<"TABLE">>, task.target_ref>>>>
      [] task.task_type = "DELIVERY" -> <<<<<<"KITCHEN">>, Main>>, <<<<"TABLE">>, task.target_ref>>>>
      [] task.task_type = "CLEANUP" -> <<<<<<"TABLE">>, task.target_ref>>, <<<<"WASHING">>, Main>>>>
      [] task.task_type = "BILLING" ->
            <<<<<<"OPERATOR">>, Main>>, <<<<"TABLE">>, task.target_ref>>, <<<<"OPERATOR">>, Main>>>>
      [] task.task_type = "NAVIGATE" -> <<<<task.target_kind, task.target_ref>>>>
      [] task.task_type = "CHARGING" ->
            <<<<<<"CHARGING">>, IF task.target_ref = <<>> THEN Main ELSE task.target_ref>>>>

\* the POI _step_nav resolves for the k-th NAVIGATE step
NavPoi(task, store, area, pois, k) ==
    ResolvePoi(store, area, pois, NavTargets(task)[k][1], NavTargets(task)[k][2])

\* the number of NAVIGATE steps among the first i steps of plan
NavIndex(plan, i) == Cardinality({j \in 1..i : plan[j].step_type = "NAVIGATE"})

\* a planned step: its type and code, and for a NAVIGATE step the POI it goes to
Planned(step, poi) ==
    [step_type |-> step.step_type, step_code |-> step.step_code, poi_id |-> poi.id,
     area_id |-> poi.areaId]

PlanOutcomeSkippingUnresolved(task, store, area, pois) ==
    LET plan == PlanSteps(task.task_type)
        kept == SelectSeq([i \in DOMAIN plan |-> i], LAMBDA i :
                    plan[i].step_type = "NAVIGATE" =>
                        NavPoi(task, store, area, pois, NavIndex(plan, i)) # NullPoi)
    IN [ok |-> TRUE,
        steps |-> [n \in DOMAIN kept |->
                      IF plan[kept[n]].step_type = "NAVIGATE"
                      THEN Planned(plan[kept[n]],
                                   NavPoi(task, store, area, pois, NavIndex(plan, kept[n])))
                      ELSE Planned(plan[kept[n]], NullPoi)]]

\* plan_steps: the steps, or the ValueError of the first NAVIGATE step whose POI
\* is not resolved
PlanOutcome(task, store, area, pois) ==
    LET plan == PlanSteps(task.task_type) IN
    IF \E k \in DOMAIN NavTargets(task) : NavPoi(task, store, area, pois, k) = NullPoi
    THEN [ok |-> FALSE, steps |-> <<>>]
    ELSE [ok |-> TRUE,
          steps |-> [i \in DOMAIN plan |->
                        IF plan[i].step_type = "NAVIGATE"
                        THEN Planned(plan[i],
                                     NavPoi(task, store, area, pois, NavIndex(plan, i)))
                        ELSE Planned(plan[i], NullPoi)]]

\* a mapping table, a robot area, a POI list and a target are given
InitResolver ==
    /\ Database
    /\ client = IdleClient
    /\ poller = IdlePoller
    /\ safe_mode = FALSE
    /\ auto_reassign = FALSE
    /\ regime \in ScenarioRegimes
    /\ \E store \in MappingStores, area \in AreaInputs, pois \in PoiLists,
          kind \in KindInputs, ref \in RefInputs :
          resolver = [IdleResolver EXCEPT !.pc = "ready", !.store = store, !.area = area,
                                          !.pois = pois, !.kind = kind, !.ref = ref]

\* _resolve_poi runs to its return
resolve_poi ==
    /\ resolver.pc = "ready"
    /\ resolver' = [resolver EXCEPT
                       !.pc = "resolved",
                       !.result = ResolvePoi(resolver.store, resolver.area, resolver.pois,
                                             resolver.kind, resolver.ref)]
    /\ UNCHANGED <<engine, client, poller>>

\* plan_steps for a task with the given target runs to its return
plan_steps ==
    /\ resolver.pc = "ready"
    /\ \E task_type \in TaskTypes :
          resolver' = [resolver EXCEPT
                          !.pc = "planned",
                          !.task_type = task_type,
                          !.planned = PlanOutcome([task_type |-> task_type,
                                                   target_kind |-> resolver.kind,
                                                   target_ref |-> resolver.ref],
                                                  resolver.store, resolver.area, resolver.pois)]
    /\ UNCHANGED <<engine, client, poller>>

NextResolver == resolve_poi \/ plan_steps

SpecResolver == InitResolver /\ [][NextResolver]_vars

\* ---------------------------------------------------------------- runs driven to their end
\* One run with tick invoked again and again, a vendor whose calls succeed and
\* whose tasks complete in the end, and an operator who confirms every
\* MANUAL_CONFIRM step in the end and does not send the run round for ever;
\* SAFE_MODE may be switched at any time.
LiveRegimes == {[procs |-> {1}, runs |-> 1, vendor |-> MaxSeqVendorTasks, history |-> FALSE]}

InitLive ==
    /\ Database
    /\ Monitor
    /\ client = IdleClient
    /\ safe_mode \in BOOLEAN
    /\ auto_reassign = FALSE
    /\ regime \in LiveRegimes

\* the vendor accepted the task_create
Created == Len(vendor') > Len(vendor)

LiveCreateReturns(p) == CreateReturns(p) /\ Created

LiveTickCreateReturns(p) == TickCreateReturns(p) /\ Created

\* task_state_v2 returned a state
LivePollReturns(p) ==
    TickPollReturns(p) /\ runs'[Head(procs[p].queue)].last_error # "VendorError"

\* task_state_v2 returned actType 1001
PollCompletes(p) == TickPollReturns(p) /\ Moved # {}

\* a confirm sends the run back to its first step only while the vendor tasks of
\* another round are within the bound
LiveConfirm(p) ==
    /\ ConfirmBegin(p)
    /\ \A r \in DOMAIN runs :
          runs'[r].current_step_index < runs[r].current_step_index =>
              Len(vendor) + 2 <= regime.vendor

\* the decision of a confirm was applied to the run
ConfirmApplied(p) == LiveConfirm(p) /\ runs' # runs

NextLive ==
    \/ create_task
    \/ switch_safe_mode
    \/ \E p \in Procs : StartRunBegin(p)
    \/ \E p \in Procs : StartRunPlanned(p)
    \/ \E p \in Procs : LiveCreateReturns(p)
    \/ \E p \in Procs : LiveConfirm(p)
    \/ \E p \in Procs : TickBegin(p)
    \/ \E p \in Procs : TickNext(p)
    \/ \E p \in Procs : LivePollReturns(p)
    \/ \E p \in Procs : LiveTickCreateReturns(p)

\* every call returns; tick is invoked, the vendor task completes and the
\* operator confirms again and again as long as they can
SpecLive ==
    /\ InitLive
    /\ [][NextLive]_vars
    /\ WF_vars(\E p \in Procs : StartRunPlanned(p))
    /\ WF_vars(\E p \in Procs : LiveCreateReturns(p))
    /\ WF_vars(\E p \in Procs : TickNext(p))
    /\ WF_vars(\E p \in Procs : LiveTickCreateReturns(p))
    /\ WF_vars(\E p \in Procs : LivePollReturns(p))
    /\ SF_vars(\E p \in Procs : TickBegin(p))
    /\ SF_vars(\E p \in Procs : PollCompletes(p))
    /\ SF_vars(\E p \in Procs : ConfirmApplied(p))

\* ---------------------------------------------------------------- delivery and billing
\* One DELIVERY or BILLING run under two requests in flight, SAFE_MODE switched
\* at any time.
StagedTypeInputs == {"DELIVERY", "BILLING"}

StagedRegimes == {[procs |-> Procs, runs |-> 1, vendor |-> MaxSeqVendorTasks, history |-> FALSE]}

InitStaged ==
    /\ Database
    /\ Monitor
    /\ client = IdleClient
    /\ safe_mode \in BOOLEAN
    /\ auto_reassign = FALSE
    /\ regime \in StagedRegimes

NextStaged ==
    \/ CreateTask(StagedTypeInputs)
    \/ switch_safe_mode
    \/ \E p \in Procs : StartRunBegin(p)
    \/ \E p \in Procs : StartRunPlanned(p)
    \/ \E p \in Procs : CreateReturns(p)
    \/ \E p \in Procs : ConfirmBegin(p)
    \/ \E p \in Procs : TickBegin(p)
    \/ \E p \in Procs : TickNext(p)
    \/ \E p \in Procs : TickPollReturns(p)
    \/ \E p \in Procs : TickCreateReturns(p)

SpecStaged == InitStaged /\ [][NextStaged]_vars

\* ---------------------------------------------------------------- runs in succession
\* One request at a time, with room for a second run and a vendor task of each.
RestartRegimes ==
    {[procs |-> {1}, runs |-> MaxRuns, vendor |-> MaxRuns, history |-> FALSE]}

InitRestart ==
    /\ Database
    /\ Monitor
    /\ client = IdleClient
    /\ safe_mode = FALSE
    /\ auto_reassign = FALSE
    /\ regime \in RestartRegimes

SpecRestart == InitRestart /\ [][Next]_vars

\* ---------------------------------------------------------------- events
Event(type, run_id, step_index) == [type |-> type, run_id |-> run_id, step_index |-> step_index]

\* the event of the start_run and confirm routes for a current step that is a
\* MANUAL_CONFIRM step
NeedsConfirm(row, run_id, rsteps) ==
    LET k == StepAt(rsteps, row.current_step_index) IN
    IF k # 0 /\ rsteps[k].step_type = "MANUAL_CONFIRM"
    THEN {Event("workflow.needs_confirm", run_id, row.current_step_index)}
    ELSE {}

\* the events the route publishes for the response resp of its handler, the
\* database holding rows and rsteps
Published(resp, rows, rsteps) ==
    IF resp.op = "start_run" /\ resp.result = "ok"
    THEN {Event("workflow.run_started", resp.run_id, rows[resp.run_id].current_step_index)}
            \cup NeedsConfirm(rows[resp.run_id], resp.run_id, rsteps[resp.run_id])
    ELSE IF resp.op = "tick"
    THEN {Event("workflow.ticked", 0, 0)}
            \cup (IF resp.progressed + resp.finished + resp.failed > 0
                  THEN {Event("workflow.updated", 0, 0)} ELSE {})
    ELSE IF resp.op = "confirm" /\ resp.result = "ok"
    THEN {Event("workflow.confirmed", resp.run_id, 0)}
            \cup NeedsConfirm(rows[resp.run_id], resp.run_id, rsteps[resp.run_id])
    ELSE {}

\* ---------------------------------------------------------------- properties
RunningOn(robot) == {r \in RunIds : runs[r].robot_id = robot /\ runs[r].status = "RUNNING"}

\* C1: in every reachable state each robot has at most one run with status
\* RUNNING, also when two start_run calls for the same robot overlap.
C1_AtMostOneRunningPerRobot == \A robot \in Robots : Cardinality(RunningOn(robot)) <= 1

\* C2: in every reachable state a run whose status is DONE, FAILED or CANCELED
\* has no current_vendor_task_id.
C2_TerminalRunHasNoVendorTask ==
    \A r \in RunIds :
        runs[r].status \in TerminalRunStatus => runs[r].current_vendor_task_id = NoVendorTask

\* C3: once a run's status is DONE, FAILED or CANCELED no step changes it.
C3_TerminalRunStatusImmutable ==
    [][\A r \in RunIds :
          runs[r].status \in TerminalRunStatus => runs'[r].status = runs[r].status]_vars

StepIndices(r) == {steps[r][k].step_index : k \in DOMAIN steps[r]}

\* C4: for every run 0 <= current_step_index <= total_steps, and the step_index
\* values of its steps are exactly 0 .. total_steps - 1, each carried by one step.
C4_StepIndexInRange ==
    \A r \in RunIds :
        /\ runs[r].current_step_index >= 0
        /\ runs[r].current_step_index <= runs[r].total_steps
        /\ StepIndices(r) = 0..(runs[r].total_steps - 1)
        /\ Len(steps[r]) = runs[r].total_steps

\* a CLEANUP run that looped back (its last step carries a YES) and has moved on
C4_Witness ==
    \E r \in RunIds :
        /\ runs[r].total_steps = 4
        /\ steps[r][4].decision = "YES"
        /\ runs[r].current_step_index = 1

\* C5: once a task's status is DONE or CANCELED no step changes it.
C5_TerminalTaskStatusImmutable ==
    [][\A t \in 1..Len(tasks) :
          tasks[t].status \in TerminalTaskStatus => tasks'[t].status = tasks[t].status]_vars

EnsureFailures == {"SafeModeBlocked", "VendorError", "StepNotFound"}

\* C6: when start_run fails in _ensure_step_started, no run of that call is
\* persisted.
C6_FailedStartPersistsNoRun ==
    (out.op = "start_run" /\ out.result \in EnsureFailures) => out.run_id \notin RunIds

StartRejections == {"TaskNotFound", "TaskTerminal", "RobotBusy", "InvalidTask"}

StartPrecondition(task_id, robot) ==
    /\ task_id \in 1..Len(tasks)
    /\ tasks[task_id].status \notin {"DONE", "CANCELED"}
    /\ RunningOn(robot) = {}

\* C7: a start_run call goes on to planning only if the task exists, is not DONE
\* or CANCELED and the robot has no RUNNING run; a call rejected for one of these
\* or for a planning failure returns an error and leaves tasks, runs, steps and
\* vendor tasks as they were.
C7_RejectedStartChangesNothing ==
    [][/\ (out'.op = "start_run" /\ out'.result \in StartRejections) => UNCHANGED db
       /\ \A p \in Procs :
             StartRunBegin(p) =>
                IF procs'[p].pc = "s_plan"
                THEN StartPrecondition(procs'[p].task_id, procs'[p].robot_id)
                ELSE out'.op = "start_run" /\ out'.result \in StartRejections]_vars

C7_Witness ==
    /\ out.op = "start_run"
    /\ out.result = "TaskTerminal"
    /\ \E r \in RunIds : runs[r].status = "RUNNING"

\* the run a confirm call that has just been accepted or rejected is about
ConfirmTarget(p) == IF procs'[p].pc = "c_create" THEN procs'[p].run_id ELSE out'.run_id

Confirmable(r) ==
    /\ r \in RunIds
    /\ runs[r].status = "RUNNING"
    /\ \E k \in DOMAIN steps[r] :
          /\ steps[r][k].step_index = runs[r].current_step_index
          /\ steps[r][k].step_type = "MANUAL_CONFIRM"

ConfirmRejections == {"RunNotFound", "RunNotRunning", "StepNotManual"}

\* C8: a confirm call on a run that does not exist, is not RUNNING or whose
\* current step is not MANUAL_CONFIRM returns an error and changes no run, step,
\* task or vendor task.
C8_RejectedConfirmChangesNothing ==
    [][\A p \in Procs :
          (ConfirmBegin(p) /\ ~Confirmable(ConfirmTarget(p))) =>
              /\ out'.op = "confirm"
              /\ out'.result \in ConfirmRejections
              /\ UNCHANGED db]_vars

\* a confirm was rejected for a run that a POSTPONE had cancelled
C8_Witness ==
    /\ out.op = "confirm"
    /\ out.result = "RunNotRunning"
    /\ out.run_id \in RunIds
    /\ runs[out.run_id].status = "CANCELED"

\* C9: a confirm call that ends in an error (BadDecision, or a failure in
\* _ensure_step_started before the vendor is called) leaves step, run and task
\* as they were before the call.
C9_FailedConfirmChangesNothing ==
    [][\A p \in Procs :
          (ConfirmBegin(p) /\ out'.op = "confirm" /\ out'.result # "ok") =>
              UNCHANGED <<steps, runs, tasks>>]_vars

\* C10: a confirm call that starts while another confirm call, which applied its
\* decision to the same step of the same run, still waits for the vendor, fails
\* with StepNotManual or RunNotRunning and changes nothing, so the decision is
\* applied once and the waiting call alone creates a vendor task.
C10_SecondConfirmRejected ==
    [][\A q \in Procs :
          (/\ ConfirmBegin(q)
           /\ ConfirmTarget(q) \in RunIds
           /\ lastWriter[ConfirmTarget(q)] # 0) =>
              /\ out'.op = "confirm"
              /\ out'.result \in {"StepNotManual", "RunNotRunning"}
              /\ UNCHANGED db]_vars

C10_Witness ==
    /\ out.op = "confirm"
    /\ out.result = "StepNotManual"
    /\ out.run_id \in RunIds
    /\ lastWriter[out.run_id] # 0
    /\ procs[lastWriter[out.run_id]].pc = "c_create"
    /\ procs[lastWriter[out.run_id]].applied

\* the counters of the tick pass in slot p after the step (returned or kept)
TickCounters(p) ==
    IF procs'[p].op = "tick" THEN [progressed |-> procs'[p].progressed,
                                   finished |-> procs'[p].finished,
                                   failed |-> procs'[p].failed]
    ELSE [progressed |-> out'.progressed, finished |-> out'.finished, failed |-> out'.failed]

\* the except branch of tick ran for the head run of the pass in slot p
TickFailedHead(p) ==
    /\ procs[p].op = "tick"
    /\ procs[p].queue # <<>>
    /\ TickCounters(p).failed = procs[p].failed + 1

\* C11: when progressing a run raises in a tick pass, that run and no other
\* becomes FAILED with last_error set, failed_runs grows by one and the other
\* counters do not, and the pass goes on with the remaining runs of its list.
C11_TickFailureIsolated ==
    [][\A p \in Procs :
          TickFailedHead(p) =>
              LET r == Head(procs[p].queue) IN
              /\ runs'[r].status = "FAILED"
              /\ runs'[r].last_error # NoError
              /\ \A o \in RunIds : o # r => runs'[o] = runs[o]
              /\ TickCounters(p).progressed = procs[p].progressed
              /\ TickCounters(p).finished = procs[p].finished
              /\ IF Tail(procs[p].queue) = <<>>
                 THEN procs'[p] = IdleProc /\ out'.op = "tick" /\ out'.result = "ok"
                 ELSE /\ procs'[p].pc = "t_next"
                      /\ procs'[p].queue = Tail(procs[p].queue)]_vars

\* a pass over two runs failed the first and progressed the second
C11_Witness ==
    /\ out.op = "tick"
    /\ out.failed = 1
    /\ out.progressed = 1
    /\ runs[1].status = "FAILED"

\* C12: the step in which the except branch of tick fails a run leaves every
\* task as it was (status and assigned_robot_id) and creates no run.
C12_TickFailureKeepsTask ==
    [][\A p \in Procs :
          TickFailedHead(p) => tasks' = tasks /\ Len(runs') = Len(runs)]_vars

C12_Witness ==
    /\ out.op = "tick"
    /\ out.failed = 1
    /\ \E r \in RunIds :
          /\ runs[r].status = "FAILED"
          /\ runs[r].last_error = "VendorError"
          /\ tasks[runs[r].task_id].status = "READY"

\* offline reassign failed and requeued the head run of the tick pass in slot p
RequeuedHead(p) ==
    /\ procs[p].pc \in {"t_state", "t_cancel"}
    /\ runs'[Head(procs[p].queue)].status = "FAILED"
    /\ runs'[Head(procs[p].queue)].last_error = "robot offline -> requeued"
    /\ TickCounters(p).progressed = procs[p].progressed + 1

\* C13: with auto-reassign on, for a run whose robot reports isOnline = false the
\* vendor cancel is called exactly when the run has a current_vendor_task_id and
\* the procedure goes on whatever the cancel returns; the task becomes READY with
\* no assigned robot exactly when it was not DONE or CANCELED; the run becomes
\* FAILED with last_error "robot offline -> requeued" and counts as progressed
\* and finished, not as failed.
C13_OfflineReassign ==
    [][\A p \in Procs :
          LET obj == Head(procs[p].snap)
              t == runs[Head(procs[p].queue)].task_id
          IN
          /\ (procs[p].pc = "t_state" /\ procs'[p].pc = "t_cancel") =>
                obj.row.current_vendor_task_id # NoVendorTask /\ UNCHANGED db
          /\ (procs[p].pc = "t_state" /\ RequeuedHead(p)) =>
                obj.row.current_vendor_task_id = NoVendorTask
          /\ (procs[p].pc = "t_cancel" /\ procs'[p] # procs[p]) => RequeuedHead(p)
          /\ RequeuedHead(p) =>
                /\ tasks'[t] = IF tasks[t].status \in {"DONE", "CANCELED"} THEN tasks[t]
                               ELSE [tasks[t] EXCEPT !.status = "READY",
                                                     !.assigned_robot_id = NoRobot]
                /\ TickCounters(p).finished = procs[p].finished + 1
                /\ TickCounters(p).failed = procs[p].failed]_vars

\* a run with a vendor task was requeued
C13_Witness ==
    /\ out.op = "tick"
    /\ out.progressed = 1 /\ out.finished = 1 /\ out.failed = 0
    /\ \E r \in RunIds :
          /\ runs[r].status = "FAILED"
          /\ runs[r].last_error = "robot offline -> requeued"
          /\ runs[r].current_vendor_task_id # NoVendorTask
          /\ tasks[runs[r].task_id].status = "READY"

\* position of the current step of run r among its steps
CurrentStep(r) == StepAt(steps[r], runs[r].current_step_index)

\* C14: a confirm with decision POSTPONE on a RUNNING run at its ORDER_DECISION
\* step succeeds, sets the task PENDING with release_at = now + minutes of the
\* payload (10 without), sets the run CANCELED and changes nothing else of the
\* run, and issues no vendor task_create.
C14_Postpone ==
    [][\A p \in Procs :
          LET r == ConfirmTarget(p) IN
          (/\ ConfirmBegin(p)
           /\ Confirmable(r)
           /\ steps[r][CurrentStep(r)].step_code = "ORDER_DECISION"
           /\ steps'[r][CurrentStep(r)].decision = "POSTPONE") =>
              LET m == steps'[r][CurrentStep(r)].decision_minutes
                  t == runs[r].task_id
              IN /\ out'.op = "confirm" /\ out'.result = "ok"
                 /\ tasks'[t].status = "PENDING"
                 /\ tasks'[t].release_min = (IF m = NoMinutes THEN 10 ELSE m)
                 /\ runs'[r] = [runs[r] EXCEPT !.status = "CANCELED"]
                 /\ vendor' = vendor
                 /\ Entering(CreatePcs) = {}]_vars

C14_Witness ==
    /\ out.op = "confirm" /\ out.result = "ok"
    /\ out.run_id \in RunIds
    /\ runs[out.run_id].status = "CANCELED"
    /\ tasks[runs[out.run_id].task_id].status = "PENDING"
    /\ tasks[runs[out.run_id].task_id].release_min = 5

\* the followed run and its task
IsRunOf(task_type) == runs # <<>> /\ tasks[runs[1].task_id].task_type = task_type

\* C15: a CLEANUP run to which the decisions YES, YES, YES, NO were applied went
\* through current_step_index 0,1,2,3,0,1,2,3 (and total_steps at the end), still
\* has its four steps, got one vendor task for each of the four NAVIGATE steps
\* it entered, and is DONE with its task DONE.
C15_CleanupLoop ==
    (IsRunOf("CLEANUP") /\ hist.decisions = <<"YES", "YES", "YES", "NO">>) =>
        /\ hist.trail = <<0, 1, 2, 3, 0, 1, 2, 3, 4>>
        /\ Len(steps[1]) = 4
        /\ Len(vendor) = 4
        /\ hist.completions = 4
        /\ runs[1].status = "DONE"
        /\ tasks[runs[1].task_id].status = "DONE"

C15_Witness ==
    /\ IsRunOf("CLEANUP")
    /\ hist.decisions = <<"YES", "YES", "YES", "NO">>
    /\ runs[1].status = "DONE"

\* C16 as stated: a DELIVERY run is DONE only after four confirm calls were
\* accepted and two vendor polls reported completion.
C16_DoneAfterFourConfirms ==
    (IsRunOf("DELIVERY") /\ runs[1].status = "DONE") =>
        Len(hist.decisions) = 4 /\ hist.completions = 2

\* C16: a DELIVERY run is DONE exactly when two confirm calls were accepted (its
\* two MANUAL_CONFIRM steps), and by then two vendor polls reported completion.
C16_DoneAfterTwoConfirms ==
    IsRunOf("DELIVERY") =>
        /\ runs[1].status = "DONE" <=> Len(hist.decisions) = 2
        /\ Len(hist.decisions) <= 2
        /\ runs[1].status = "DONE" => hist.completions = 2

C16_Witness ==
    /\ IsRunOf("DELIVERY")
    /\ runs[1].status = "DONE"
    /\ hist.trail = <<0, 1, 2, 3, 4>>

\* every handler has returned
Quiet == \A p \in Procs : procs[p].pc = "idle"

\* the vendor accepted every task_create so far, answered the first task_state
\* with a state other than completed and every later one with completion
HappyVendor ==
    /\ Len(vendor) = hist.creates
    /\ hist.polls = hist.pending + hist.completions
    /\ hist.pending = (IF hist.polls > 0 THEN 1 ELSE 0)

\* C17: for a NAVIGATE task, after a start_run that returned without error and two
\* tick passes, with the vendor answering the first poll "not completed" and the
\* second "completed", one task_create and two task_state calls were issued, the
\* run and the task are DONE and the run has no current vendor task.
C17_NavigateHappyPath ==
    (/\ IsRunOf("NAVIGATE")
     /\ hist.started
     /\ hist.ticks = 2
     /\ Quiet
     /\ HappyVendor) =>
        /\ hist.creates = 1
        /\ hist.polls = 2
        /\ runs[1].status = "DONE"
        /\ tasks[runs[1].task_id].status = "DONE"
        /\ runs[1].current_vendor_task_id = NoVendorTask

C17_Witness ==
    /\ IsRunOf("NAVIGATE")
    /\ hist.started /\ hist.ticks = 2 /\ Quiet /\ HappyVendor
    /\ runs[1].status = "DONE"

\* the decision of a confirm was applied in this step and left run 1 RUNNING at
\* a NAVIGATE step
ConfirmedIntoNavigate ==
    /\ hist'.decisions # hist.decisions
    /\ runs'[1].status = "RUNNING"
    /\ EnsureStepStarted(runs'[1], steps[1]) \in {"blocked", "create"}

\* C18: while SAFE_MODE is on no handler issues a vendor task_create; a start_run
\* that persisted its run and a confirm that moved the run to a NAVIGATE step
\* return the safe-mode error.
C18_SafeModeBlocksCreate ==
    [][safe_mode =>
          /\ Entering(CreatePcs) = {}
          /\ Len(runs') > Len(runs) =>
                out'.op = "start_run" /\ out'.result = "SafeModeBlocked"
          /\ ConfirmedIntoNavigate =>
                out'.op = "confirm" /\ out'.result = "SafeModeBlocked"]_vars

C18_Witness ==
    /\ safe_mode
    /\ out.op = "confirm"
    /\ out.result = "SafeModeBlocked"

\* C19: while SAFE_MODE is on, a tick whose poll reports completion does not mark
\* the run FAILED and a confirm whose decision is applied returns without error.
C19_SafeModeKeepsPollingAndConfirms ==
    [][safe_mode =>
          /\ \A p \in PollAnswered :
                Moved # {} => runs'[Head(procs[p].queue)].status # "FAILED"
          /\ hist'.decisions # hist.decisions =>
                out'.op = "confirm" /\ out'.result = "ok"]_vars

\* C20: a vendor call that has returned or raised sent at most two requests to
\* its endpoint and cleared and re-fetched the token at most once.
C20_RetriesOnce ==
    client.pc = "returned" => client.sent <= 2 /\ client.cleared <= 1

\* the response a returned vendor call took its result from
LastResponse == client.responses[client.sent]

\* C21: a task_state_v2 call whose final response carries an application status
\* other than 200 raises (so that tick marks the run FAILED) and never returns the
\* body as a state.
C21_TaskStateRaisesOnBadStatus ==
    (/\ client.pc = "returned"
     /\ client.call = "task_state_v2"
     /\ ~RaisesForStatus(LastResponse)
     /\ LastResponse.status # 200) => client.result # "ok"

\* the dicts a and b hold the same keys with the same values
SameState(a, b) == {a[i] : i \in DOMAIN a} = {b[i] : i \in DOMAIN b}

\* C22: a robot.state_updated event never carries a state equal (as a dict, so
\* with an equal canonical hash) to the state of the robot's previous
\* robot.state_updated event, and a successful fetch of such a state publishes
\* nothing, whatever fetch errors came in between.
C22_PublishOnChangeOnly ==
    [][\A rid \in Robots :
          /\ (poller'.event.type = "robot.state_updated" /\ poller'.event.robot_id = rid) =>
                ~SameState(poller'.event.state, poller.published[rid])
          /\ (/\ poller'.fetched.ok
              /\ poller'.fetched.robot_id = rid
              /\ SameState(poller'.fetched.state, poller.published[rid])) =>
                poller'.event = NoEvent]_vars

\* after a fetch error, a fetch returned the published state with its keys in
\* another order and nothing was published
C22_Witness ==
    \E rid \in Robots :
        /\ poller.fetched.ok
        /\ poller.fetched.robot_id = rid
        /\ SameState(poller.fetched.state, poller.published[rid])
        /\ poller.fetched.state # poller.published[rid]
        /\ poller.errors[rid]
        /\ poller.event = NoEvent

\* C23: at most one polling loop exists at any time; a start while a loop is
\* alive creates none, a start with no loop alive launches a fresh one with the
\* stop event clear; once stop has set the event the loop eventually exits.
C23_PollerLifecycle ==
    /\ [](Len(poller.loops) <= 1)
    /\ [][poller_start =>
            IF poller.loops # <<>> THEN poller'.loops = poller.loops
            ELSE poller'.loops = <<NewLoop>> /\ ~poller'.stop]_vars
    /\ (poller.stop ~> poller.loops = <<>>)

\* a fresh loop was launched after an earlier loop had polled and was stopped
C23_Witness ==
    /\ poller.loops = <<NewLoop>>
    /\ ~poller.stop
    /\ poller.last_hash["R1"] # NoHash

\* a returned _resolve_poi call: its normalized kind and ref and the POIs of all
\* areas
ResolvedKind == Upper(Strip(resolver.kind))

ResolvedRef == Strip(resolver.ref)

MappedId == MappingGet(resolver.store, ResolvedKind, ResolvedRef)

LivePois == {resolver.pois[i] : i \in DOMAIN resolver.pois}

MappingHit == MappedId # NoMapping /\ \E p \in LivePois : p.id = MappedId

IdHit == \E p \in LivePois : p.id = ResolvedRef

NameOf(p) == Norm(p.name)

\* the name tier of the kind, as the resolution tiers describe it
NameHit(p) ==
    CASE ResolvedKind = <<"TABLE">> ->
            FirstDigits(ResolvedRef) # <<>> /\ Contains(FirstDigits(ResolvedRef), NameOf(p))
      [] ResolvedKind = <<"KITCHEN">> -> Contains(<<"kitchen">>, NameOf(p))
      [] ResolvedKind = <<"OPERATOR">> -> Contains(<<"operator">>, NameOf(p))
      [] ResolvedKind = <<"WASHING">> ->
            \E w \in {"wash", "dish", "sink", "kitchen"} : Contains(<<w>>, NameOf(p))
      [] ResolvedKind = <<"CHARGING">> ->
            \E w \in {"charg", "dock", "pile"} : Contains(<<w>>, NameOf(p))
      [] OTHER -> Contains(Norm(ResolvedRef), NameOf(p))

\* C24 as stated: a mapping whose poi_id is among the live POIs decides the
\* result; without one a POI whose id equals ref does; null is returned only when
\* no tier matches, the name tier of any other kind matching every POI whose
\* normalized name contains the normalized ref.
C24_TiersInOrder ==
    resolver.pc = "resolved" =>
        /\ MappingHit => resolver.result.id = MappedId
        /\ (~MappingHit /\ IdHit) => resolver.result.id = ResolvedRef
        /\ resolver.result = NullPoi =>
              ~MappingHit /\ ~IdHit /\ \A p \in LivePois : ~NameHit(p)

\* the name tier with an empty normalized ref matching no POI of another kind
NameHitNonEmpty(p) ==
    NameHit(p) /\
    (ResolvedKind \notin {<<"TABLE">>, <<"KITCHEN">>, <<"OPERATOR">>, <<"WASHING">>,
                          <<"CHARGING">>} => Norm(ResolvedRef) # <<>>)

\* C24: as above, the name tier of any other kind matching no POI when the
\* normalized ref is empty; a result that is not null is a live POI.
C24_TiersInOrderNonEmptyRef ==
    resolver.pc = "resolved" =>
        /\ MappingHit => resolver.result.id = MappedId
        /\ (~MappingHit /\ IdHit) => resolver.result.id = ResolvedRef
        /\ resolver.result = NullPoi <=>
              (~MappingHit /\ ~IdHit /\ \A p \in LivePois : ~NameHitNonEmpty(p))
        /\ resolver.result # NullPoi => resolver.result \in LivePois

\* the mapped POI was returned although the list starts with a POI whose id
\* equals ref
C24_Witness ==
    /\ resolver.pc = "resolved"
    /\ MappingHit
    /\ IdHit
    /\ MappedId # ResolvedRef
    /\ resolver.pois[1].id = ResolvedRef
    /\ resolver.result.id = MappedId

\* C25: when the (kind, ref) mapping exists but no live POI of any area has its
\* poi_id, resolve returns what it returns for the same robot, POIs, kind and ref
\* with an empty mapping table.
C25_AbsentMappedPoiFallsThrough ==
    (resolver.pc = "resolved" /\ MappedId # NoMapping /\ ~MappingHit) =>
        resolver.result = ResolvePoi({}, resolver.area, resolver.pois, resolver.kind,
                                     resolver.ref)

\* the mapped POI is absent and the name tier found another one
C25_Witness ==
    /\ resolver.pc = "resolved"
    /\ MappedId # NoMapping
    /\ ~MappingHit
    /\ ~IdHit
    /\ resolver.result # NullPoi

\* the step codes of the protocol of each task type (NAV: a NAVIGATE step)
Template(task_type) ==
    CASE task_type \in {"NAVIGATE", "CHARGING"} -> <<"NAV">>
      [] task_type = "ORDERING" -> <<"NAV", "ORDER_DECISION">>
      [] task_type = "DELIVERY" -> <<"NAV", "DELIVERY_LOADED", "NAV", "DELIVERY_DONE">>
      [] task_type = "CLEANUP" -> <<"NAV", "CLEANUP_HAS_DISHES", "NAV", "CLEANUP_MORE_DISHES">>
      [] task_type = "BILLING" ->
            <<"NAV", "BILLING_READY", "NAV", "BILLING_COLLECTED", "NAV", "BILLING_DONE">>

\* the planned step is the one the template names
FitsTemplate(step, code) ==
    IF code = "NAV" THEN step.step_type = "NAVIGATE" /\ step.poi_id # NullPoi.id
    ELSE step.step_type = "MANUAL_CONFIRM" /\ step.step_code = code

\* the task plan_steps was called for
PlannedTask ==
    [task_type |-> resolver.task_type, target_kind |-> resolver.kind,
     target_ref |-> resolver.ref]

\* a NAVIGATE step of the task has a target that resolves to no POI
SomeTargetUnresolved ==
    \E k \in DOMAIN NavTargets(PlannedTask) :
        NavPoi(PlannedTask, resolver.store, resolver.area, resolver.pois, k) = NullPoi

\* C27: plan_steps either fails, returning no step, which it does exactly when
\* the POI of one of its NAVIGATE steps does not resolve, or returns the step
\* sequence of the task type's template: it begins with a NAVIGATE step and
\* NAVIGATE and MANUAL_CONFIRM steps alternate.
C27_PlannerTemplates ==
    resolver.pc = "planned" =>
        LET plan == resolver.planned.steps IN
        /\ resolver.planned.ok <=> ~SomeTargetUnresolved
        /\ ~resolver.planned.ok => plan = <<>>
        /\ resolver.planned.ok =>
              /\ Len(plan) = Len(Template(resolver.task_type))
              /\ \A i \in DOMAIN plan : FitsTemplate(plan[i], Template(resolver.task_type)[i])
              /\ plan[1].step_type = "NAVIGATE"
              /\ \A i \in 1..(Len(plan) - 1) : plan[i].step_type # plan[i + 1].step_type

\* a BILLING task was planned, its table found by the digits of its ref
C27_Witness ==
    /\ resolver.pc = "planned"
    /\ resolver.task_type = "BILLING"
    /\ resolver.planned.ok
    /\ Len(resolver.planned.steps) = 6
    /\ resolver.planned.steps[3].poi_id = <<"p2">>

\* C28: with tick invoked repeatedly, every vendor call succeeding, every vendor
\* task completing in the end and the operator confirming every MANUAL_CONFIRM
\* step in the end without looping for ever, a started run reaches DONE, FAILED
\* or CANCELED.
C28_RunsTerminate ==
    (runs # <<>>) ~> (runs # <<>> /\ runs[1].status \in TerminalRunStatus)

\* a CLEANUP run that went round once is DONE
C28_Witness ==
    /\ runs # <<>>
    /\ runs[1].status = "DONE"
    /\ Len(vendor) = 4
    /\ steps[1][4].decision = "NO"

\* the index of run r moves in step order: to the next step, to total_steps, or
\* from a CLEANUP_MORE_DISHES step decided YES back to step 0
InOrder(r) ==
    LET i == runs[r].current_step_index
        j == runs'[r].current_step_index
        k == StepAt(steps[r], i)
    IN \/ j = i + 1
       \/ j = runs[r].total_steps
       \/ /\ j = 0
          /\ k # 0
          /\ steps[r][k].step_code = "CLEANUP_MORE_DISHES"
          /\ steps'[r][k].decision = "YES"

\* the task_state call that slot p issues in this step carries a vendor task
\* created for the run it polls
PollsOwnTask(p) ==
    LET r == Head(procs'[p].queue)
        v == Head(procs'[p].snap).row.current_vendor_task_id
    IN v \in 1..Len(vendor) /\ vendor[v] = r

\* C29: the step index of a run only moves to index+1, to total_steps or (on
\* CLEANUP_MORE_DISHES=YES) back to 0, and a task_state poll is only issued
\* with a vendor task id created for the polled run.
C29_StepsInOrder ==
    [][/\ \A r \in Moved \cap (1..Len(runs)) : InOrder(r)
       /\ \A p \in Entering({"t_poll"}) : PollsOwnTask(p)]_vars

\* progressed_runs of the tick pass in slot p after the step
ProgressedAfter(p) == IF procs'[p].op = "tick" THEN procs'[p].progressed ELSE out'.progressed

\* run r is RUNNING and its current step is a MANUAL_CONFIRM step
AtManualConfirm(r) ==
    /\ runs[r].status = "RUNNING"
    /\ LET k == StepAt(steps[r], runs[r].current_step_index) IN
          k # 0 /\ steps[r][k].step_type = "MANUAL_CONFIRM"

\* the tick pass in slot p takes the head of its list in this step
Examines(p) == procs[p].pc = "t_next" /\ procs'[p] # procs[p]

\* the tick pass in slot p counted neither progress nor a failure in this step
\* and waits on no further call
NoProgress(p) ==
    /\ ProgressedAfter(p) = procs[p].progressed
    /\ FailedAfter(p) = procs[p].failed
    /\ procs'[p].pc \notin CreatePcs

SameRun(r) ==
    /\ runs'[r].status = runs[r].status
    /\ runs'[r].current_step_index = runs[r].current_step_index
    /\ runs'[r].current_vendor_task_id = runs[r].current_vendor_task_id

\* C30: a tick pass that takes a RUNNING run whose current step is
\* MANUAL_CONFIRM (offline reassign off) leaves its status, current_step_index
\* and current_vendor_task_id unchanged and counts no progress; a poll answered
\* without completion (no progress, no failure) leaves the run unchanged.
C30_TickStopsAtManualConfirm ==
    [][/\ \A p \in Procs :
             (Examines(p) /\ ~auto_reassign /\ AtManualConfirm(Head(procs[p].queue))) =>
                 /\ SameRun(Head(procs[p].queue))
                 /\ ProgressedAfter(p) = procs[p].progressed
       /\ \A p \in PollAnswered :
             NoProgress(p) => runs'[Head(procs[p].queue)] = runs[Head(procs[p].queue)]]_vars

\* a tick pass over the only run, which waits at its MANUAL_CONFIRM step, has
\* just answered with no progress
C30_Witness ==
    /\ Len(runs) = 1
    /\ AtManualConfirm(1)
    /\ runs[1].current_vendor_task_id = NoVendorTask
    /\ out.op = "tick"
    /\ out.result = "ok"
    /\ out.progressed = 0
    /\ out.failed = 0
    /\ \A p \in Procs : Free(p)

\* the runs that become DONE in this step
Finishing == {r \in 1..Len(runs') : runs'[r].status = "DONE" /\ (r > Len(runs) \/ runs[r].status # "DONE")}

\* C31: every transition of a run to DONE leaves the attached task DONE in the
\* same operation.
C31_DoneRunHasDoneTask ==
    [][\A r \in Finishing : tasks'[runs'[r].task_id].status = "DONE"]_vars

\* a tick pass has just finished a run at the end of its steps
C31_Witness ==
    /\ out.op = "tick"
    /\ out.finished = 1
    /\ \E r \in RunIds : runs[r].status = "DONE" /\ tasks[runs[r].task_id].status = "DONE"

\* the confirm of run r answered in this step recorded decision d on the current
\* step of r, a step with one of the codes
Decided(r, codes, d) ==
    LET k == StepAt(steps[r], runs[r].current_step_index) IN
    /\ out'.op = "confirm"
    /\ out'.run_id = r
    /\ runs[r].status = "RUNNING"
    /\ k # 0
    /\ steps[r][k].step_code \in codes
    /\ steps'[r][k] # steps[r][k]
    /\ steps'[r][k].decision = d

\* the run and the step index for which slot p issues task_create in this step
CreateRun(p) == IF procs'[p].op = "tick" THEN Head(procs'[p].queue) ELSE procs'[p].run_id

CreateIndex(p) ==
    IF procs'[p].op = "tick"
    THEN Head(procs'[p].snap).row.current_step_index
    ELSE runs'[procs'[p].run_id].current_step_index

\* slot p issues task_create from the run row as the database holds it
CreateFromRow(p) ==
    procs'[p].op = "tick" => Head(procs'[p].snap).row = runs'[Head(procs'[p].queue)]

\* run r has a CLEANUP_HAS_DISHES step decided NO
NoDishes(r) ==
    \E k \in DOMAIN steps[r] :
        steps[r][k].step_code = "CLEANUP_HAS_DISHES" /\ steps[r][k].decision = "NO"

DeliveryOrBillingConfirm(r) ==
    /\ ConfirmCheck(r) = "ok"
    /\ steps[r][StepAt(steps[r], runs[r].current_step_index)].step_code
           \in DeliveryOrBillingCodes
    /\ \/ out'.op = "confirm" /\ out'.run_id = r /\ procs' = procs
       \/ \E p \in Procs : procs[p].pc = "idle" /\ procs'[p].pc = "c_create"
                             /\ procs'[p].run_id = r

\* the confirm of run r ended the run: run and task DONE, no task_create
EndsRun(r) ==
    /\ runs'[r].status = "DONE"
    /\ tasks'[runs[r].task_id].status = "DONE"
    /\ vendor' = vendor
    /\ Entering(CreatePcs) = {}

\* the confirm of run r left it RUNNING and issued one task_create for its step
StartsNextNavigate(r) ==
    /\ runs'[r].status = "RUNNING"
    /\ Cardinality(Entering(CreatePcs)) = 1
    /\ \A p \in Entering(CreatePcs) :
          /\ procs'[p].run_id = r
          /\ steps[r][StepAt(steps[r], runs'[r].current_step_index)].step_type = "NAVIGATE"

OfflineError == "robot offline -> requeued"

\* the answers of get_state that are not an explicit isOnline = False
NotOffline == {"raise", "online", "unknown"}

\* C34: with auto-reassign on, when get_state fails or answers isOnline null or
\* true no task_cancel is issued, the run is not failed as offline and the task
\* is not requeued, and the run is taken through the per-step state machine in
\* the same pass; with auto-reassign off tick never waits on get_state.
C34_NotOfflineProgresses ==
    [][/\ \A p \in Procs, outcome \in NotOffline :
             StateReturns(p, outcome) =>
                 LET r == Head(procs[p].queue)
                     t == runs[r].task_id
                 IN /\ procs'[p].pc \notin {"t_cancel", "t_state"}
                    /\ runs'[r].last_error = OfflineError => runs[r].last_error = OfflineError
                    /\ tasks'[t] # tasks[t] => runs'[r].status = "DONE" /\ tasks'[t].status = "DONE"
                    /\ ProgressFrom(p, r, Head(procs[p].snap))
       /\ ~auto_reassign => \A p \in Procs : procs'[p].pc \notin {"t_state", "t_cancel"}]_vars

\* with auto-reassign on a tick pass went on to poll the vendor task of its run
C34_Witness ==
    /\ auto_reassign
    /\ \E p \in Procs :
          /\ procs[p].pc = "t_poll"
          /\ runs[Head(procs[p].queue)].status = "RUNNING"
          /\ runs[Head(procs[p].queue)].current_vendor_task_id # NoVendorTask

\* the loops of the poller that wait on get_state for the robot at position i
Fetching(i) == {j \in 1..Len(poller.loops) : poller.loops[j] = [pc |-> "fetch", i |-> i]}

\* C35: a failed fetch publishes robot.state_error for that robot, leaves its
\* cache entry and last hash as they were and leaves the loop running at the
\* same robot (from where it goes on to the next robot or cycle); a successful
\* fetch stores the fetched state in the cache whether or not it changed.
C35_FetchErrorIsolated ==
    [][\A rid \in {RobotIds[i] : i \in DOMAIN RobotIds} :
          poller'.fetched.robot_id = rid =>
              IF poller'.fetched.ok
              THEN poller'.cache[rid] = poller'.fetched.state
              ELSE /\ poller'.event = [type |-> "robot.state_error", robot_id |-> rid,
                                       state |-> NoState]
                   /\ poller'.cache[rid] = poller.cache[rid]
                   /\ poller'.last_hash[rid] = poller.last_hash[rid]
                   /\ Len(poller'.loops) = Len(poller.loops)
                   /\ \A j \in 1..Len(poller.loops) :
                         poller'.loops[j] # poller.loops[j] =>
                             poller'.loops[j] = [pc |-> "publish", i |-> poller.loops[j].i]]_vars

\* after a failed fetch for the first robot, whose earlier state is still
\* cached, the loop polls the second robot
C35_Witness ==
    /\ poller.errors[RobotIds[1]]
    /\ poller.cache[RobotIds[1]] # NoState
    /\ Fetching(2) # {}

\* the first run of digits of the resolved ref
RefDigits == FirstDigits(ResolvedRef)

HasDigits(p) == Contains(RefDigits, NameOf(p))

TableNamed(p) ==
    /\ Contains(<<"table">>, NameOf(p)) \/ Contains(<<"tbl">>, NameOf(p))
    /\ HasDigits(p)

\* the positions in the POI list of the POIs named as a table with the digits,
\* and of those named with the digits
TableAt == {i \in DOMAIN resolver.pois : TableNamed(resolver.pois[i])}

DigitsAt == {i \in DOMAIN resolver.pois : HasDigits(resolver.pois[i])}

\* C36: for kind TABLE without a mapping or direct-id hit, resolve returns the
\* first POI whose normalized name contains "table" or "tbl" and the first run
\* of digits of ref; failing that the first POI whose normalized name contains
\* the digits; and null when there is none or ref has no digit.
C36_TableFallback ==
    (resolver.pc = "resolved" /\ ResolvedKind = <<"TABLE">> /\ ~MappingHit /\ ~IdHit) =>
        IF RefDigits = <<>> THEN resolver.result = NullPoi
        ELSE IF TableAt # {}
        THEN \E i \in TableAt : /\ resolver.result = resolver.pois[i]
                                /\ \A j \in TableAt : i <= j
        ELSE IF DigitsAt # {}
        THEN \E i \in DigitsAt : /\ resolver.result = resolver.pois[i]
                                 /\ \A j \in DigitsAt : i <= j
        ELSE resolver.result = NullPoi

\* the table named with the digits was preferred to an earlier POI whose name
\* only contains them
C36_Witness ==
    /\ resolver.pc = "resolved"
    /\ ResolvedKind = <<"TABLE">>
    /\ ~MappingHit
    /\ ~IdHit
    /\ 1 \in DigitsAt
    /\ TableAt = {2}
    /\ resolver.result = resolver.pois[2]

\* the run and the step index for which slot q awaits task_create
CreatingRun(q) == IF procs[q].op = "tick" THEN Head(procs[q].queue) ELSE procs[q].run_id

CreatingIndex(q) ==
    IF procs[q].op = "tick"
    THEN Head(procs[q].snap).row.current_step_index
    ELSE runs[procs[q].run_id].current_step_index

\* the other handlers awaiting task_create for the run and step for which slot p
\* issues task_create in this step
SameTraversal(p) ==
    {q \in Procs \ {p} : /\ procs[q].pc \in CreatePcs
                         /\ CreatingRun(q) = CreateRun(p)
                         /\ CreatingIndex(q) = CreateIndex(p)}

\* C37: no handler issues task_create for a run and step for which another
\* handler (start_run, confirm or a tick pass) is already awaiting task_create.
C37_OneCreatePerTraversal ==
    [][\A p \in Entering(CreatePcs) : CreateFromRow(p) => SameTraversal(p) = {}]_vars

\* the runs on robot that record a vendor task: without AUTO_REASSIGN_ON_OFFLINE
\* no task is cancelled, and a reported completion clears the id, so a recorded
\* vendor task is outstanding
HoldingOn(robot) ==
    {r \in RunIds : /\ runs[r].robot_id = robot
                    /\ runs[r].current_vendor_task_id # NoVendorTask}

\* C38: on every robot at most one vendor task created by the engine is
\* outstanding: no two runs of a robot record vendor tasks of their own.
C38_OneOutstandingPerRobot ==
    \A robot \in Robots : \A r1, r2 \in HoldingOn(robot) :
        runs[r1].current_vendor_task_id = runs[r2].current_vendor_task_id

\* C39: a RUNNING run whose current step is MANUAL_CONFIRM records no vendor task.
C39_ManualConfirmHasNoVendorTask ==
    \A r \in RunIds :
        (runs[r].status = "RUNNING" /\ AtManualConfirm(r)) =>
            runs[r].current_vendor_task_id = NoVendorTask

\* the runs that enter a MANUAL_CONFIRM step in this step
EnteringManual ==
    {r \in Moved :
        /\ runs'[r].status = "RUNNING"
        /\ LET k == StepAt(steps'[r], runs'[r].current_step_index) IN
              k # 0 /\ steps'[r][k].step_type = "MANUAL_CONFIRM"}

\* C40: when a RUNNING run enters a MANUAL_CONFIRM step, the request through
\* which it entered publishes workflow.needs_confirm for that run and step: a
\* handler that returns with the commit that made the run enter has the event
\* among those its route publishes.
C40_NeedsConfirmPublished ==
    [][\A r \in EnteringManual :
          out' # NoResponse =>
              Event("workflow.needs_confirm", r, runs'[r].current_step_index)
                  \in Published(out', runs', steps')]_vars

====
